---- MODULE Spec2Model ----
(***************************************************************************)
(* RIS backend: the relationship reconciler (RelationshipService), the     *)
(* template data refresher (TemplateDataService) and the data store they   *)
(* share (Sequelize models Subspecialty, Template, SubspecialtyTemplate).  *)
(*                                                                         *)
(* Conventions                                                             *)
(*  - A JavaScript string whose characters matter (specCode) is a sequence *)
(*    of one-character strings; Undefined is the one-element sequence that *)
(*    stands for null/undefined.                                           *)
(*  - Any other string column is a TLA+ string; NULL stands for            *)
(*    null/undefined.                                                      *)
(*  - A raw number (a value parseInt or || is applied to) is <<n>>, and    *)
(*    <<>> when the field is absent or not numeric.                        *)
(*  - A table is the sequence of its rows in insertion order: the row's    *)
(*    autoincrement id is its index (rows are never deleted).  The         *)
(*    association table is the set of its (subspecialtyId, templateId)     *)
(*    pairs; its own autoincrement id and the timestamps are left out.     *)
(***************************************************************************)
EXTENDS Integers, Sequences, FiniteSets, TLC

VARIABLES
    Subspecialty,           \* table subspecialties
    Template,               \* table templates
    SubspecialtyTemplate,   \* table subspecialty_templates
    pc,                     \* createRelationships: position of the run
    subspecialties,         \* createRelationships: argument
    templates,              \* createRelationships: argument
    si,                     \* index of the next raw subspecialty
    ti,                     \* index of the next raw template
    subspecialtyMap,        \* code -> id of the row upserted in this run
    stats,                  \* the run's statistics
    result,                 \* the run's return value
    before,                 \* the store when the observed call started
    rpc,                    \* updateSpecificTemplate: position
    inst,                   \* the in-memory Template instance
    attempt,                \* updateSingleTemplate: loop variable
    delay,                  \* the setTimeout the retry loop waits on
    outcome,                \* updateSpecificTemplate: return value
    calls,                  \* responses of fetchTemplateDetails so far
    listings,               \* responses of fetchTemplates so far
    specCode,               \* parseSpecCode: argument
    parsed,                 \* parseSpecCode: return value
    request,                \* SyncController: the handler that is running
    upstream,               \* SyncController: the upstream calls made so far
    fetched,                \* SyncController: the two arrays it fetched
    response,               \* SyncController: what res.json was given
    specialty,              \* createTemplateHTML: template.specialty
    sections,               \* createTemplateHTML: the generated section texts
    job,                    \* the batch operation that is running
    bpc,                    \* the batch operation: position
    templatesWithoutData,   \* the ids of the selected rows, in order
    offset,                 \* the batch loop's variable i
    promises,               \* the promises of the current batch
    dispatched,             \* the ids whose promise was created, in order
    updated,                \* the batch operation's counter
    failed,                 \* the batch operation's counter
    results,                \* what each dispatched promise settled with
    summary,                \* the batch operation's return value
    runs                    \* createRelationships called twice: each call's locals

storeVars == <<Subspecialty, Template, SubspecialtyTemplate>>
runVars == <<pc, subspecialties, templates, si, ti, subspecialtyMap, stats, result, before>>
refreshVars == <<rpc, inst, attempt, delay, outcome, calls, listings>>
parseVars == <<specCode, parsed>>
syncVars == <<request, upstream, fetched, response>>
keywordVars == <<specialty, sections>>
batchVars == <<job, bpc, templatesWithoutData, offset, promises, dispatched,
               updated, failed, results, summary>>
raceVars == <<runs>>
otherVars == <<refreshVars, parseVars, syncVars, keywordVars, batchVars, raceVars>>
vars == <<storeVars, runVars, refreshVars, parseVars, syncVars, keywordVars, batchVars,
         raceVars>>

-----------------------------------------------------------------------------
(* JavaScript values *)

NULL == "<null>"
Undefined == <<"<undefined>">>
WhiteSpace == {" ", "\t", "\n"}

\* !v for a string column: null, undefined and '' are falsy
Falsy(v) == v \in {NULL, ""}

\* a || b on string columns
Or(a, b) == IF Falsy(a) THEN b ELSE a

\* parseInt(v) || 0 on a raw number: NaN and 0 both give 0
ParseIntOr0(v) == IF v = <<>> THEN 0 ELSE v[1]

\* a || b where a is a raw number and b a stored integer
NumOr(a, b) == IF a = <<>> \/ a[1] = 0 THEN b ELSE a[1]

-----------------------------------------------------------------------------
(* RelationshipService.parseSpecCode *)

\* String.prototype.split(','): the pieces between the commas, empty ones kept
RECURSIVE split(_)
split(s) ==
    IF \A i \in 1..Len(s) : s[i] # ","
    THEN <<s>>
    ELSE LET i == CHOOSE j \in 1..Len(s) :
                      s[j] = "," /\ \A k \in 1..(j - 1) : s[k] # ","
         IN  <<SubSeq(s, 1, i - 1)>> \o split(SubSeq(s, i + 1, Len(s)))

\* String.prototype.trim()
RECURSIVE trim(_)
trim(s) ==
    IF s = <<>> THEN s
    ELSE IF s[1] \in WhiteSpace THEN trim(Tail(s))
    ELSE IF s[Len(s)] \in WhiteSpace THEN trim(SubSeq(s, 1, Len(s) - 1))
    ELSE s

NonEmptyCode(code) == Len(code) > 0

\* faulty variant: the pieces are not trimmed
parseSpecCodeNoTrim(sc) ==
    IF sc = Undefined \/ sc = <<>> THEN <<>>
    ELSE SelectSeq(split(sc), NonEmptyCode)

parseSpecCode(sc) ==
    IF sc = Undefined \/ sc = <<>> THEN <<>>
    ELSE LET pieces == split(sc)
             trimmed == [i \in 1..Len(pieces) |-> trim(pieces[i])]
         IN  SelectSeq(trimmed, NonEmptyCode)

-----------------------------------------------------------------------------
(* The data store: Sequelize models and the operations the services call *)

\* validate: { notEmpty: true } with allowNull: false, on a TLA+ string column
NotEmpty(v) == v \notin {NULL, "", " "}

\* the same on a column whose characters are modelled
NotEmptyChars(s) == s # Undefined /\ \E i \in 1..Len(s) : s[i] \notin WhiteSpace

\* model Subspecialty: code notEmpty and len [1, 10], shortName and name
\* notEmpty, count min 0
ValidSubspecialty(v) ==
    /\ NotEmptyChars(v.code) /\ Len(v.code) <= 10
    /\ NotEmpty(v.shortName)
    /\ NotEmpty(v.name)
    /\ v.count >= 0

\* model Template: template_id, title and specCode notEmpty (title stands for
\* the other required text columns), views and downloads min 0
ValidTemplate(v) ==
    /\ NotEmptyChars(v.template_id)
    /\ NotEmpty(v.title)
    /\ NotEmptyChars(v.specCode)
    /\ v.views >= 0
    /\ v.downloads >= 0

\* instance.update(values) leaves out the values that are undefined; the
\* required columns reach update unchanged from the raw record
Given(new, old) == IF new = NULL THEN old ELSE new

\* the same on a column whose characters are modelled
GivenChars(new, old) == IF new = Undefined THEN old ELSE new

\* Model.findOne({ where: { <key>: k } }): the id of the row, 0 when none
FindId(table, key, k) ==
    IF \E i \in 1..Len(table) : table[i][key] = k
    THEN CHOOSE i \in 1..Len(table) : table[i][key] = k
    ELSE 0

\* SubspecialtyTemplate.count({ where: { subspecialtyId: id } })
CountLinks(links, id) == Cardinality({l \in links : l.subspecialtyId = id})

\* faulty variant: create instead of findOrCreate: the unique index on
\* (subspecialty_id, template_id) rejects a pair the table holds
LinkCreate(links, sid, tid) ==
    LET pair == [subspecialtyId |-> sid, templateId |-> tid]
    IN  [threw |-> pair \in links, links |-> links \cup {pair}]

\* SubspecialtyTemplate.findOrCreate({ where: { subspecialtyId, templateId } }):
\* [threw, links]; a pair that is found is returned and nothing is inserted
LinkFindOrCreate(links, sid, tid) ==
    LET pair == [subspecialtyId |-> sid, templateId |-> tid]
    IN  IF pair \in links
        THEN [threw |-> FALSE, links |-> links]
        ELSE [threw |-> FALSE, links |-> links \cup {pair}]

-----------------------------------------------------------------------------
(* RelationshipService.createRelationships *)

NoStats ==
    [subspecialtiesProcessed |-> 0, templatesProcessed |-> 0,
     relationshipsCreated |-> 0, errors |-> <<>>]

\* the columns built from a raw subspecialty, for defaults and for update
SubspecialtyValues(d) ==
    [code |-> d.code, shortName |-> d.shortName, name |-> d.name,
     count |-> ParseIntOr0(d.count)]

\* the columns built from a raw template, for defaults and for update
TemplateValues(d) ==
    [template_id |-> d.template_id,
     title |-> d.title,
     specCode |-> d.specCode,
     views |-> ParseIntOr0(d.views),
     description |-> Or(d.description, NULL),
     author |-> Or(d.author, ""),
     firstname |-> Or(d.firstname, ""),
     lastname |-> Or(d.lastname, ""),
     downloads |-> ParseIntOr0(d.downloads),
     templateData |-> Or(d.templateData, NULL)]

\* faulty variant: create instead of findOrCreate: the unique index on code
\* rejects a code the table holds
UpsertSubspecialtyCreate(table, d) ==
    LET v == SubspecialtyValues(d)
    IN  IF d.code # Undefined /\ FindId(table, "code", d.code) = 0 /\ ValidSubspecialty(v)
        THEN [threw |-> FALSE, table |-> Append(table, v), id |-> Len(table) + 1]
        ELSE [threw |-> TRUE, table |-> table, id |-> 0]

\* findOrCreate by code, then update when the row existed.
\* [threw, table, id]: a validation error throws and leaves the table alone.
UpsertSubspecialty(table, d) ==
    LET v == SubspecialtyValues(d)
        id == FindId(table, "code", d.code)
        Fail == [threw |-> TRUE, table |-> table, id |-> 0]
    IN  IF d.code = Undefined THEN Fail
        ELSE IF id = 0
        THEN IF ValidSubspecialty(v)
             THEN [threw |-> FALSE, table |-> Append(table, v), id |-> Len(table) + 1]
             ELSE Fail
        ELSE LET row == [table[id] EXCEPT
                             !.shortName = Given(v.shortName, @),
                             !.name = Given(v.name, @),
                             !.count = v.count]
             IN  IF ValidSubspecialty(row)
                 THEN [threw |-> FALSE, table |-> [table EXCEPT ![id] = row], id |-> id]
                 ELSE Fail

\* faulty variant: create instead of findOrCreate
UpsertTemplateCreate(table, d) ==
    LET v == TemplateValues(d)
    IN  IF d.template_id # Undefined /\ ValidTemplate(v)
        THEN [threw |-> FALSE, table |-> Append(table, v), id |-> Len(table) + 1]
        ELSE [threw |-> TRUE, table |-> table, id |-> 0]

\* faulty variant: the update keeps the stored enrichment when the raw record
\* carries none
UpsertTemplateKeep(table, d) ==
    LET v == TemplateValues(d)
        id == FindId(table, "template_id", d.template_id)
        Fail == [threw |-> TRUE, table |-> table, id |-> 0]
    IN  IF d.template_id = Undefined THEN Fail
        ELSE IF id = 0
        THEN IF ValidTemplate(v)
             THEN [threw |-> FALSE, table |-> Append(table, v), id |-> Len(table) + 1]
             ELSE Fail
        ELSE LET row == [v EXCEPT
                             !.title = Given(v.title, table[id].title),
                             !.specCode = GivenChars(v.specCode, table[id].specCode),
                             !.templateData = Given(v.templateData, table[id].templateData),
                             !.description = Given(v.description, table[id].description)]
             IN  IF ValidTemplate(row)
                 THEN [threw |-> FALSE, table |-> [table EXCEPT ![id] = row], id |-> id]
                 ELSE Fail

\* findOrCreate by template_id, then update when the row existed
UpsertTemplate(table, d) ==
    LET v == TemplateValues(d)
        id == FindId(table, "template_id", d.template_id)
        Fail == [threw |-> TRUE, table |-> table, id |-> 0]
    IN  IF d.template_id = Undefined THEN Fail
        ELSE IF id = 0
        THEN IF ValidTemplate(v)
             THEN [threw |-> FALSE, table |-> Append(table, v), id |-> Len(table) + 1]
             ELSE Fail
        ELSE LET row == [v EXCEPT
                             !.title = Given(v.title, table[id].title),
                             !.specCode = GivenChars(v.specCode, table[id].specCode)]
             IN  IF ValidTemplate(row)
                 THEN [threw |-> FALSE, table |-> [table EXCEPT ![id] = row], id |-> id]
                 ELSE Fail

\* the ids, in order, of the parsed codes that subspecialtyMap holds
RECURSIVE relatedSubspecialties(_, _)
relatedSubspecialties(map, specCodes) ==
    IF specCodes = <<>> THEN <<>>
    ELSE LET rest == relatedSubspecialties(map, Tail(specCodes))
         IN  IF Head(specCodes) \in DOMAIN map
             THEN <<map[Head(specCodes)]>> \o rest
             ELSE rest

\* faulty variant: relationshipsCreated counts the rows that were inserted,
\* not the findOrCreate calls
LinkedCountingRows(links, related, tid) ==
    LET rows == links \cup {[subspecialtyId |-> related[n], templateId |-> tid] :
                               n \in 1..Len(related)}
    IN  [threw |-> FALSE, links |-> rows, created |-> Cardinality(rows \ links)]

\* the loop over relatedSubspecialties (lines 697-705): [threw, links,
\* created], where created is the number of findOrCreate calls that returned;
\* a call that throws ends the loop and leaves the rows inserted before it
RECURSIVE Linked(_, _, _)
Linked(links, related, tid) ==
    IF related = <<>> THEN [threw |-> FALSE, links |-> links, created |-> 0]
    ELSE LET r == LinkFindOrCreate(links, Head(related), tid)
         IN  IF r.threw
             THEN [threw |-> TRUE, links |-> links, created |-> 0]
             ELSE LET rest == Linked(r.links, Tail(related), tid)
                  IN  [rest EXCEPT !.created = @ + 1]

\* faulty variant: the junction table is left as it is
clearExistingRelationshipsSkipped(links) == links

\* clearExistingRelationships: SubspecialtyTemplate.destroy({ where: {} })
clearExistingRelationships(links) == {}

\* faulty variant: the counts are left as the upsert wrote them
updateSubspecialtyCountsSkipped(table, links) == table

\* updateSubspecialtyCounts: every row's count becomes its number of links
updateSubspecialtyCounts(table, links) ==
    [i \in 1..Len(table) |-> [table[i] EXCEPT !.count = CountLinks(links, i)]]

\* one iteration of the loop over subspecialties (lines 606-635), on
\* [Subspecialty, Template, SubspecialtyTemplate, subspecialtyMap, stats]
createSubspecialty(st, d) ==
    LET r == UpsertSubspecialty(st.Subspecialty, d)
    IN  IF r.threw
        THEN [st EXCEPT !.stats.errors = Append(@, <<"Subspecialty", d.code>>)]
        ELSE [st EXCEPT
                 !.Subspecialty = r.table,
                 !.subspecialtyMap =
                     [c \in DOMAIN st.subspecialtyMap \cup {d.code} |->
                         IF c = d.code THEN r.id ELSE st.subspecialtyMap[c]],
                 !.stats.subspecialtiesProcessed = @ + 1]

\* faulty variant: the catch does not record the failing template
createTemplateSilent(st, d) ==
    LET specCodes == parseSpecCode(d.specCode)
        related == relatedSubspecialties(st.subspecialtyMap, specCodes)
        r == UpsertTemplate(st.Template, d)
        l == Linked(st.SubspecialtyTemplate, related, r.id)
        upserted == [st EXCEPT
                        !.Template = r.table,
                        !.SubspecialtyTemplate = l.links,
                        !.stats.relationshipsCreated = @ + l.created]
    IN  IF r.threw THEN st
        ELSE IF l.threw THEN upserted
        ELSE [upserted EXCEPT !.stats.templatesProcessed = @ + 1]

\* faulty variant: the association rows the template had are removed before
\* those of the record are inserted
createTemplateReplacing(st, d) ==
    LET specCodes == parseSpecCode(d.specCode)
        related == relatedSubspecialties(st.subspecialtyMap, specCodes)
        r == UpsertTemplate(st.Template, d)
        kept == {x \in st.SubspecialtyTemplate : x.templateId # r.id}
        l == Linked(kept, related, r.id)
        upserted == [st EXCEPT
                        !.Template = r.table,
                        !.SubspecialtyTemplate = l.links,
                        !.stats.relationshipsCreated = @ + l.created]
    IN  IF r.threw
        THEN [st EXCEPT !.stats.errors = Append(@, <<"Template", d.template_id>>)]
        ELSE IF l.threw
        THEN [upserted EXCEPT !.stats.errors = Append(@, <<"Template", d.template_id>>)]
        ELSE [upserted EXCEPT !.stats.templatesProcessed = @ + 1]

\* one iteration of the loop over templates (lines 638-712)
createTemplate(st, d) ==
    LET specCodes == parseSpecCode(d.specCode)
        related == relatedSubspecialties(st.subspecialtyMap, specCodes)
        r == UpsertTemplate(st.Template, d)
        l == Linked(st.SubspecialtyTemplate, related, r.id)
        upserted == [st EXCEPT
                        !.Template = r.table,
                        !.SubspecialtyTemplate = l.links,
                        !.stats.relationshipsCreated = @ + l.created]
    IN  IF r.threw
        THEN [st EXCEPT !.stats.errors = Append(@, <<"Template", d.template_id>>)]
        ELSE IF l.threw
        THEN [upserted EXCEPT !.stats.errors = Append(@, <<"Template", d.template_id>>)]
        ELSE [upserted EXCEPT !.stats.templatesProcessed = @ + 1]

\* the state a call starts its loops in (lines 594-605)
Cleared(S, T, ST) ==
    [Subspecialty |-> S, Template |-> T,
     SubspecialtyTemplate |-> clearExistingRelationships(ST),
     subspecialtyMap |-> <<>>, stats |-> NoStats]

RECURSIVE CreateSubspecialties(_, _)
CreateSubspecialties(st, subs) ==
    IF subs = <<>> THEN st
    ELSE CreateSubspecialties(createSubspecialty(st, Head(subs)), Tail(subs))

RECURSIVE CreateTemplates(_, _)
CreateTemplates(st, tpls) ==
    IF tpls = <<>> THEN st
    ELSE CreateTemplates(createTemplate(st, Head(tpls)), Tail(tpls))

\* the store a complete call of createRelationships(subs, tpls) leaves
createRelationships(S, T, ST, subs, tpls) ==
    LET st == CreateTemplates(CreateSubspecialties(Cleared(S, T, ST), subs), tpls)
    IN  <<updateSubspecialtyCounts(st.Subspecialty, st.SubspecialtyTemplate),
          st.Template, st.SubspecialtyTemplate>>

-----------------------------------------------------------------------------
(* TemplateDataService: updateSpecificTemplate, updateSingleTemplate,
   fallbackUpdate *)

retryAttempts == 3
retryDelay == 2000

NoOutcome == [returned |-> FALSE, success |-> FALSE, fallback |-> FALSE, error |-> NULL]
Success == [returned |-> TRUE, success |-> TRUE, fallback |-> FALSE, error |-> NULL]
FallbackSuccess == [returned |-> TRUE, success |-> TRUE, fallback |-> TRUE, error |-> NULL]
\* faulty variant: the failure is thrown to the caller, nothing is returned
FailureThrown(message) ==
    [returned |-> FALSE, success |-> FALSE, fallback |-> FALSE, error |-> message]

Failure(message) == [returned |-> TRUE, success |-> FALSE, fallback |-> FALSE, error |-> message]

\* the object updateSingleTemplate passes to template.update (lines 454-461)
DetailValues(t, details) ==
    [templateData |-> Or(details.templateData, NULL),
     description |-> Or(details.description, t.description),
     author |-> Or(details.author, t.author),
     firstname |-> Or(details.firstname, t.firstname),
     lastname |-> Or(details.lastname, t.lastname),
     downloads |-> NumOr(details.downloads, t.downloads)]

\* faulty variant: every value of the listing record is written, absent or not
BasicValuesOverwrite(t, basic) ==
    [description |-> basic.description,
     author |-> basic.author,
     firstname |-> basic.firstname,
     lastname |-> basic.lastname]

\* the object fallbackUpdate passes to template.update (lines 492-497)
BasicValues(t, basic) ==
    [description |-> Or(basic.description, t.description),
     author |-> Or(basic.author, t.author),
     firstname |-> Or(basic.firstname, t.firstname),
     lastname |-> Or(basic.lastname, t.lastname)]

\* instance.set(values): the instance in memory takes the values
Set(t, values) ==
    [f \in DOMAIN t |-> IF f \in DOMAIN values THEN values[f] ELSE t[f]]

\* instance.save({ fields }): the validators of the saved columns
SaveAccepts(t, fields) ==
    /\ "downloads" \in fields => t.downloads >= 0
    /\ "views" \in fields => t.views >= 0
    /\ "title" \in fields => NotEmpty(t.title)
    /\ "specCode" \in fields => NotEmptyChars(t.specCode)

\* the row after the UPDATE of the saved columns
Saved(row, t, fields) ==
    [f \in DOMAIN row |-> IF f \in fields THEN t[f] ELSE row[f]]

\* faulty variant: the fallback starts one attempt early
LastAttemptEarly(n) == n >= retryAttempts - 1

\* attempt === this.retryAttempts (line 468)
LastAttempt(n) == n = retryAttempts

\* templates.find(t => t.template_id === template.template_id): its index, 0
\* when none
FindBasic(list, k) ==
    IF \E i \in 1..Len(list) : list[i].template_id = k
    THEN CHOOSE i \in 1..Len(list) :
             /\ list[i].template_id = k
             /\ \A j \in 1..(i - 1) : list[j].template_id # k
    ELSE 0

-----------------------------------------------------------------------------
(* The raw records the upstream API can deliver *)

CA == <<"C", "A">>
CT == <<"C", "T">>
NR == <<"N", "R">>
ZZ == <<"Z", "Z">>
Id50 == <<"5", "0">>
Id51 == <<"5", "1">>

RawSubspecialty(code, name, count) ==
    [code |-> code, shortName |-> name, name |-> name, count |-> count]

RawCA == RawSubspecialty(CA, "Cardiac Radiology", <<7>>)
RawCT == RawSubspecialty(CT, "Computed Tomography", <<3>>)
RawNR == RawSubspecialty(NR, "Neuroradiology", <<>>)
RawCANoName == RawSubspecialty(CA, "", <<7>>)

\* a raw template of the listing endpoint: no enrichment
RawTemplate(id, title, sc) ==
    [template_id |-> id, title |-> title, specCode |-> sc,
     views |-> <<12>>, downloads |-> <<>>,
     description |-> NULL, author |-> NULL, firstname |-> NULL,
     lastname |-> NULL, templateData |-> NULL]

CACT == <<"C", "A", ",", "C", "T">>
CACA == <<"C", "A", ",", "C", "A">>
CACTSpaced == <<"C", "A", ",", " ", "C", "T", " ", ",">>

RawTemplates ==
    { RawTemplate(Id50, "Cardiac CT", CACT),
      RawTemplate(Id50, "Brain MR", NR),
      RawTemplate(Id50, "Cardiac CT", <<>>),
      RawTemplate(Id50, "Cardiac CT", <<",">>),
      RawTemplate(Id51, "Chest CT", CACTSpaced),
      RawTemplate(Id51, "Unknown", ZZ),
      RawTemplate(Id51, "", CT),
      RawTemplate(Id51, "Chest CT", Undefined) }

\* the lists the reconciler is called with
MaxTemplates == 2

ListsUpTo(S, n) == UNION {[1..k -> S] : k \in 0..n}

SubspecialtyLists ==
    { <<>>,
      <<RawCA, RawCT>>,
      <<RawCA, RawCT, RawNR>>,
      <<RawCANoName, RawCT, RawNR>>,
      <<RawCT, RawCA, RawCA>> }

FiveTemplates ==
    << RawTemplate(Id50, "Cardiac CT", CACT),
       RawTemplate(Id51, "Unknown", ZZ),
       RawTemplate(Id51, "", CT),
       RawTemplate(Id50, "Brain MR", NR),
       RawTemplate(Id51, "Chest CT", CACTSpaced) >>

\* raw templates whose counters are negative or not numbers
CounterTemplates ==
    << [RawTemplate(Id50, "Cardiac CT", CACT) EXCEPT !.views = <<-3>>],
       [RawTemplate(Id51, "Chest CT", CT) EXCEPT !.views = <<>>, !.downloads = <<-1>>] >>

\* a specCode that repeats a code, and a second record of the same template
\* that names the code once more
RepeatedTemplates ==
    << RawTemplate(Id50, "Cardiac CT", CACA),
       RawTemplate(Id50, "Cardiac CT", CACT) >>

\* a record without its title (undefined), and a later record of the same
\* template that has one
UntitledTemplates ==
    << RawTemplate(Id50, NULL, NR),
       RawTemplate(Id50, "Cardiac CT", CACT) >>

TemplateLists ==
    ListsUpTo(RawTemplates, MaxTemplates)
        \cup {FiveTemplates, CounterTemplates, RepeatedTemplates, UntitledTemplates}

\* the stores the service starts from: the empty database, and the database
\* as an earlier synchronisation left it
EarlierSyncs ==
    { <<<<>>, <<>>>>,
      <<<<RawCA, RawCT>>, <<>>>>,
      <<<<RawCA, RawCT, RawNR>>,
        <<RawTemplate(Id50, "Cardiac CT", CACT), RawTemplate(Id51, "Unknown", ZZ)>>>>,
      <<<<RawCA, RawCT, RawNR>>,
        <<RawTemplate(Id51, "Chest CT", CACTSpaced), RawTemplate(Id50, "Brain MR", NR)>>>>,
      <<<<RawCA, RawCT, RawNR>>, FiveTemplates>> }

Stores == {createRelationships(<<>>, <<>>, {}, in[1], in[2]) : in \in EarlierSyncs}

-----------------------------------------------------------------------------
(* The steps of createRelationships *)

Current ==
    [Subspecialty |-> Subspecialty, Template |-> Template,
     SubspecialtyTemplate |-> SubspecialtyTemplate,
     subspecialtyMap |-> subspecialtyMap, stats |-> stats]

Becomes(st) ==
    /\ Subspecialty' = st.Subspecialty
    /\ Template' = st.Template
    /\ SubspecialtyTemplate' = st.SubspecialtyTemplate
    /\ subspecialtyMap' = st.subspecialtyMap
    /\ stats' = st.stats

\* the call: stats and subspecialtyMap are fresh and the junction table is
\* cleared (lines 594-605)
Call(subs, tpls) ==
    /\ pc = "idle"
    /\ subspecialties' = subs
    /\ templates' = tpls
    /\ si' = 1
    /\ ti' = 1
    /\ Becomes(Cleared(Subspecialty, Template, SubspecialtyTemplate))
    /\ pc' = "run"
    /\ UNCHANGED <<result, before>>

\* SubspecialtyTemplate.destroy rejects: the outer catch returns success: false
CallFails(subs, tpls) ==
    /\ pc = "idle"
    /\ subspecialties' = subs
    /\ templates' = tpls
    /\ result' = "failure"
    /\ pc' = "done"
    /\ UNCHANGED <<storeVars, si, ti, subspecialtyMap, stats, before>>

\* one iteration of the loop over subspecialties (lines 606-635)
CreateSubspecialty ==
    /\ pc = "run"
    /\ si <= Len(subspecialties)
    /\ Becomes(createSubspecialty(Current, subspecialties[si]))
    /\ si' = si + 1
    /\ UNCHANGED <<pc, subspecialties, templates, ti, result, before>>

\* one iteration of the loop over templates (lines 638-712)
CreateTemplate ==
    /\ pc = "run"
    /\ si > Len(subspecialties)
    /\ ti <= Len(templates)
    /\ Becomes(createTemplate(Current, templates[ti]))
    /\ ti' = ti + 1
    /\ UNCHANGED <<pc, subspecialties, templates, si, result, before>>

\* after the loops: the counts are recomputed and the run returns success
\* (lines 714-721)
Finish ==
    /\ pc = "run"
    /\ si > Len(subspecialties)
    /\ ti > Len(templates)
    /\ Subspecialty' = updateSubspecialtyCounts(Subspecialty, SubspecialtyTemplate)
    /\ result' = "success"
    /\ pc' = "done"
    /\ UNCHANGED <<Template, SubspecialtyTemplate, subspecialties, templates, si, ti,
                   subspecialtyMap, stats, before>>

\* updateSubspecialtyCounts rejects: the outer catch returns success: false
FinishFails ==
    /\ pc = "run"
    /\ si > Len(subspecialties)
    /\ ti > Len(templates)
    /\ result' = "failure"
    /\ pc' = "done"
    /\ UNCHANGED <<storeVars, subspecialties, templates, si, ti,
                   subspecialtyMap, stats, before>>

\* the caller calls createRelationships again with the same two arguments
CallAgain ==
    /\ pc = "done"
    /\ result = "success"
    /\ before = <<>>
    /\ before' = <<Subspecialty, Template, SubspecialtyTemplate>>
    /\ si' = 1
    /\ ti' = 1
    /\ Becomes(Cleared(Subspecialty, Template, SubspecialtyTemplate))
    /\ result' = "none"
    /\ pc' = "run"
    /\ UNCHANGED <<subspecialties, templates>>

-----------------------------------------------------------------------------
(* The reconciler on its own *)

RefreshIdle ==
    /\ rpc = "idle"
    /\ inst = <<>>
    /\ attempt = 0
    /\ delay = 0
    /\ outcome = NoOutcome
    /\ calls = <<>>
    /\ listings = <<>>

ParseIdle ==
    /\ specCode = <<>>
    /\ parsed = <<>>

RunIdle ==
    /\ pc = "idle"
    /\ subspecialties = <<>>
    /\ templates = <<>>
    /\ si = 1
    /\ ti = 1
    /\ subspecialtyMap = <<>>
    /\ stats = NoStats
    /\ result = "none"
    /\ before = <<>>

\* res.json has not been called
NoResponse ==
    [sent |-> FALSE, status |-> 0, success |-> FALSE, error |-> NULL, data |-> <<>>]

SyncIdle ==
    /\ request = "none"
    /\ upstream = <<>>
    /\ fetched = <<>>
    /\ response = NoResponse

\* createTemplateHTML has not returned
NoSections == [procedureInformation |-> NULL, findings |-> NULL, impression |-> NULL]

KeywordIdle ==
    /\ specialty = <<>>
    /\ sections = NoSections

\* the batch operation has not returned
NoSummary == [returned |-> FALSE, success |-> FALSE]

BatchIdle ==
    /\ job = "none"
    /\ bpc = "idle"
    /\ templatesWithoutData = <<>>
    /\ offset = 0
    /\ promises = <<>>
    /\ dispatched = <<>>
    /\ updated = 0
    /\ failed = 0
    /\ results = {}
    /\ summary = NoSummary

\* the two calls of createRelationships that can be in progress at once
Runs == {1, 2}

\* a call that has not been made
NoRun ==
    [pc |-> "idle", si |-> 1, ti |-> 1, li |-> 1, ci |-> 1,
     subspecialtyMap |-> <<>>, relatedSubspecialties |-> <<>>, template |-> 0,
     found |-> 0, actualCount |-> 0, stats |-> NoStats]

RaceIdle == runs = [r \in Runs |-> NoRun]

Init ==
    /\ \E store \in Stores :
           /\ Subspecialty = store[1]
           /\ Template = store[2]
           /\ SubspecialtyTemplate = store[3]
    /\ RunIdle
    /\ RefreshIdle
    /\ ParseIdle
    /\ SyncIdle
    /\ KeywordIdle
    /\ BatchIdle
    /\ RaceIdle

Next ==
    \/ \E subs \in SubspecialtyLists, tpls \in TemplateLists :
           Call(subs, tpls) /\ UNCHANGED otherVars
    \/ \E subs \in SubspecialtyLists, tpls \in TemplateLists :
           CallFails(subs, tpls) /\ UNCHANGED otherVars
    \/ CreateSubspecialty /\ UNCHANGED otherVars
    \/ CreateTemplate /\ UNCHANGED otherVars
    \/ Finish /\ UNCHANGED otherVars
    \/ FinishFails /\ UNCHANGED otherVars
    \/ CallAgain /\ UNCHANGED otherVars

Spec == Init /\ [][Next]_vars

-----------------------------------------------------------------------------
(* Properties of the reconciler *)

Succeeded == pc = "done" /\ result = "success"

Elements(seq) == {seq[i] : i \in 1..Len(seq)}

\* the codes of the subspecialties the junction table links template row tid to
LinkedCodes(tid) ==
    {Subspecialty[l.subspecialtyId].code :
        l \in {x \in SubspecialtyTemplate : x.templateId = tid}}

\* the codes of the stored subspecialties, and of those upserted in this run
StoredCodes == {Subspecialty[i].code : i \in 1..Len(Subspecialty)}
RunCodes == DOMAIN subspecialtyMap

\* C1: after a successful run, every stored template is linked to exactly the
\* codes of its specCode that are known subspecialty codes (known read either
\* as stored or as upserted in this run)
C1_LinksMatchSpecCode ==
    Succeeded =>
        \A tid \in 1..Len(Template) :
            LET codes == Elements(parseSpecCode(Template[tid].specCode))
            IN  \/ LinkedCodes(tid) = codes \cap StoredCodes
                \/ LinkedCodes(tid) = codes \cap RunCodes

\* C2: after a successful run, every stored subspecialty's count is the
\* number of junction rows that reference it
C2_CountIsCardinality ==
    Succeeded =>
        \A id \in 1..Len(Subspecialty) :
            Subspecialty[id].count =
                Cardinality({l \in SubspecialtyTemplate : l.subspecialtyId = id})

\* a successful run that left a subspecialty outside its input, a linked
\* subspecialty and an unlinked one
C2_Witness ==
    /\ Succeeded
    /\ \E id \in 1..Len(Subspecialty) : Subspecialty[id].code \notin RunCodes
    /\ \E id \in 1..Len(Subspecialty) : Subspecialty[id].count = 2
    /\ \E id \in 1..Len(Subspecialty) :
           Subspecialty[id].count = 0 /\ Subspecialty[id].code \in RunCodes

\* C3: a second run with the same arguments ends in the store the first run
\* ended in
C3_Idempotent ==
    (Succeeded /\ before # <<>>) =>
        <<Subspecialty, Template, SubspecialtyTemplate>> = before

\* a repeated run that has links, a failing item and an updated template
C3_Witness ==
    /\ Succeeded
    /\ before # <<>>
    /\ SubspecialtyTemplate # {}
    /\ stats.errors # <<>>
    /\ stats.templatesProcessed = 2

\* the raw templates of the run that carry template_id k
Records(k) == {i \in 1..Len(templates) : templates[i].template_id = k}

\* C4: a template reconciled with a specCode of several codes, all of them
\* upserted in the run, is linked to exactly those codes and counted by each;
\* a code without a subspecialty gives no link and no entry in errors
C4_MultiCode ==
    Succeeded =>
        \A i \in 1..Len(templates) :
            LET d == templates[i]
                codes == Elements(parseSpecCode(d.specCode))
                tid == FindId(Template, "template_id", d.template_id)
            IN  /\ (/\ ValidTemplate(TemplateValues(d))
                    /\ Cardinality(codes) >= 2
                    /\ codes \subseteq RunCodes)
                   => /\ tid # 0
                      /\ LinkedCodes(tid) = codes
                      /\ \A c \in codes :
                             Subspecialty[subspecialtyMap[c]].count >= 1
                /\ (/\ ValidTemplate(TemplateValues(d))
                    /\ codes \cap StoredCodes = {}
                    /\ Records(d.template_id) = {i})
                   => /\ tid # 0
                      /\ LinkedCodes(tid) = {}
                      /\ <<"Template", d.template_id>> \notin Elements(stats.errors)

\* the raw item is rejected by validation whether it is created or updated
RejectedSubspecialty(d) ==
    d.shortName # NULL /\ d.name # NULL /\ ~ValidSubspecialty(SubspecialtyValues(d))
RejectedTemplate(d) ==
    d.title # NULL /\ d.specCode # Undefined /\ ~ValidTemplate(TemplateValues(d))

\* the raw item passes validation whether it is created or updated
AcceptedSubspecialty(d) == ValidSubspecialty(SubspecialtyValues(d))
AcceptedTemplate(d) == ValidTemplate(TemplateValues(d))

\* the entries of errors for the rejected items of a list, in order
RECURSIVE ErrorsOf(_, _, _)
ErrorsOf(kind, ids, rejected) ==
    IF ids = <<>> THEN <<>>
    ELSE (IF rejected[1] THEN <<(<<kind, Head(ids)>>)>> ELSE <<>>)
             \o ErrorsOf(kind, Tail(ids), Tail(rejected))

\* C5: a run whose clear and recount succeed returns success however many
\* items throw; every item is either processed or named in errors, the errors
\* are those of the rejected items in input order, and every accepted item is
\* stored
C5_BestEffort ==
    (pc = "done" /\ result # "failure") =>
    /\ result = "success"
    /\ stats.subspecialtiesProcessed + stats.templatesProcessed + Len(stats.errors)
           = Len(subspecialties) + Len(templates)
    /\ \A i \in 1..Len(subspecialties) :
           AcceptedSubspecialty(subspecialties[i]) =>
               /\ subspecialties[i].code \in RunCodes
               /\ FindId(Subspecialty, "code", subspecialties[i].code) # 0
    /\ \A i \in 1..Len(templates) :
           AcceptedTemplate(templates[i]) =>
               FindId(Template, "template_id", templates[i].template_id) # 0
    /\ ( /\ \A i \in 1..Len(subspecialties) :
                \/ AcceptedSubspecialty(subspecialties[i])
                \/ RejectedSubspecialty(subspecialties[i])
         /\ \A i \in 1..Len(templates) :
                \/ AcceptedTemplate(templates[i])
                \/ RejectedTemplate(templates[i]) )
       => stats.errors =
              ErrorsOf("Subspecialty",
                       [i \in 1..Len(subspecialties) |-> subspecialties[i].code],
                       [i \in 1..Len(subspecialties) |->
                           RejectedSubspecialty(subspecialties[i])])
              \o ErrorsOf("Template",
                          [i \in 1..Len(templates) |-> templates[i].template_id],
                          [i \in 1..Len(templates) |-> RejectedTemplate(templates[i])])

\* five templates of which the third throws: the other four are processed and
\* errors holds the one entry
C5_Witness ==
    /\ Succeeded
    /\ templates = FiveTemplates
    /\ stats.templatesProcessed = 4
    /\ stats.errors = <<(<<"Template", Id51>>)>>
    /\ ti = 6

\* C6: parseSpecCode("") is []; a template whose specCode is empty or parses
\* to nothing gets no junction row and no entry in errors
C6_EmptySpecCode ==
    /\ parseSpecCode(<<>>) = <<>>
    /\ Succeeded =>
           \A i \in 1..Len(templates) :
               LET d == templates[i]
                   tid == FindId(Template, "template_id", d.template_id)
               IN  (/\ parseSpecCode(d.specCode) = <<>>
                    /\ NotEmpty(d.title)
                    /\ Records(d.template_id) = {i})
                   => /\ <<"Template", d.template_id>> \notin Elements(stats.errors)
                      /\ tid # 0 => LinkedCodes(tid) = {}

-----------------------------------------------------------------------------
(* The steps of updateSpecificTemplate *)

\* Template.findOne by template_id; updateSingleTemplate starts with the row
\* as the instance (lines 514-525, 443-444)
updateSpecificTemplate(templateId) ==
    /\ rpc = "idle"
    /\ before' = <<Subspecialty, Template, SubspecialtyTemplate>>
    /\ LET id == FindId(Template, "template_id", templateId)
       IN  IF id = 0
           THEN /\ outcome' = Failure("Template not found")
                /\ rpc' = "done"
                /\ UNCHANGED <<inst, attempt>>
           ELSE /\ inst' = <<[id |-> id, values |-> Template[id]]>>
                /\ attempt' = 1
                /\ rpc' = "attempt"
                /\ UNCHANGED outcome
    /\ UNCHANGED <<Template, delay, calls, listings>>

\* faulty variant: every retry waits the same delay
CaughtFlatDelay ==
    IF LastAttempt(attempt)
    THEN rpc' = "fallback" /\ UNCHANGED delay
    ELSE rpc' = "wait" /\ delay' = retryDelay

\* the catch of the retry loop (lines 465-475): the fallback after the last
\* attempt, the delay before the next one otherwise
Caught ==
    IF LastAttempt(attempt)
    THEN rpc' = "fallback" /\ UNCHANGED delay
    ELSE rpc' = "wait" /\ delay' = retryDelay * attempt

\* fetchTemplateDetails throws
DetailsFail ==
    /\ rpc = "attempt"
    /\ calls' = Append(calls, <<"fail">>)
    /\ Caught
    /\ UNCHANGED <<Template, inst, attempt, outcome, listings, before>>

\* fetchTemplateDetails returns; template.update sets the values and saves
\* them, and a validation error is caught like a failed fetch (lines 448-463)
DetailsReturn(details) ==
    /\ rpc = "attempt"
    /\ calls' = Append(calls, <<"ok", details>>)
    /\ LET id == inst[1].id
           values == DetailValues(inst[1].values, details)
           t == Set(inst[1].values, values)
       IN  /\ inst' = <<[id |-> id, values |-> t]>>
           /\ IF SaveAccepts(t, DOMAIN values)
              THEN /\ Template' = [Template EXCEPT ![id] = Saved(@, t, DOMAIN values)]
                   /\ outcome' = Success
                   /\ rpc' = "done"
                   /\ UNCHANGED delay
              ELSE /\ Caught
                   /\ UNCHANGED <<Template, outcome>>
    /\ UNCHANGED <<attempt, listings, before>>

\* the setTimeout has fired: the next iteration of the loop
Retry ==
    /\ rpc = "wait"
    /\ attempt' = attempt + 1
    /\ delay' = 0
    /\ rpc' = "attempt"
    /\ UNCHANGED <<Template, inst, outcome, calls, listings, before>>

\* fallbackUpdate: fetchTemplates throws (lines 505-508)
ListingFails ==
    /\ rpc = "fallback"
    /\ listings' = Append(listings, <<"fail">>)
    /\ outcome' = Failure("Failed to fetch templates")
    /\ rpc' = "done"
    /\ UNCHANGED <<Template, inst, attempt, delay, calls, before>>

\* fallbackUpdate: fetchTemplates returns (lines 487-503)
ListingReturns(list) ==
    /\ rpc = "fallback"
    /\ listings' = Append(listings, <<"ok", list>>)
    /\ LET id == inst[1].id
           i == FindBasic(list, inst[1].values.template_id)
       IN  IF i = 0
           THEN /\ outcome' = Failure("Template not found in basic templates list")
                /\ UNCHANGED <<Template, inst>>
           ELSE LET values == BasicValues(inst[1].values, list[i])
                    t == Set(inst[1].values, values)
                IN  /\ inst' = <<[id |-> id, values |-> t]>>
                    /\ Template' = [Template EXCEPT ![id] = Saved(@, t, DOMAIN values)]
                    /\ outcome' = FallbackSuccess
    /\ rpc' = "done"
    /\ UNCHANGED <<attempt, delay, calls, before>>

-----------------------------------------------------------------------------
(* The refresher on its own *)

\* responses of the detail endpoint
Details(td, desc, author, first, last, downloads) ==
    [templateData |-> td, description |-> desc, author |-> author,
     firstname |-> first, lastname |-> last, downloads |-> downloads]

DetailResponses ==
    { Details("<html>new</html>", "new description", "Dr. New Author", "New", "Author", <<9>>),
      Details(NULL, NULL, NULL, NULL, NULL, <<>>),
      Details(NULL, "new description", NULL, NULL, NULL, <<>>),
      Details("<html>new</html>", "", NULL, NULL, NULL, <<0>>),
      Details("<html>new</html>", "new description", NULL, NULL, NULL, <<-1>>) }

\* records of the listing endpoint
Basic(id, desc, author, first, last) ==
    [RawTemplate(id, "Cardiac CT", CACT) EXCEPT
         !.description = desc, !.author = author,
         !.firstname = first, !.lastname = last]

ListingResponses ==
    { <<Basic(Id50, "basic description", "Dr. Basic Author", "Basic", "Author"),
        Basic(Id51, NULL, NULL, NULL, NULL)>>,
      <<Basic(Id51, "other", NULL, NULL, NULL),
        Basic(Id50, NULL, "Dr. Basic Author", NULL, NULL),
        Basic(Id50, "second", NULL, NULL, NULL)>>,
      <<Basic(Id51, "other", NULL, NULL, NULL)>>,
      <<>> }

\* a raw template as fetchTemplatesWithDetails delivers it
Enriched(id, td, desc, author, first, last, downloads) ==
    [RawTemplate(id, "Cardiac CT", CACT) EXCEPT
         !.templateData = td, !.description = desc, !.author = author,
         !.firstname = first, !.lastname = last, !.downloads = downloads]

\* the stores a refresh starts from: after a plain synchronisation, and after
\* detailed ones
RefreshSyncs ==
    { <<RawTemplate(Id50, "Cardiac CT", CACT), RawTemplate(Id51, "Unknown", ZZ)>>,
      <<Enriched(Id50, "<html>old</html>", "old description", "Dr. Old Author",
                 "Old", "Author", <<5>>),
        RawTemplate(Id51, "Unknown", ZZ)>>,
      <<RawTemplate(Id51, "Unknown", ZZ),
        Enriched(Id50, NULL, "old description", "Dr. Old Author", NULL, NULL, <<5>>)>> }

RefreshStores ==
    {createRelationships(<<>>, <<>>, {}, <<RawCA, RawCT>>, tpls) : tpls \in RefreshSyncs}

TemplateIds == {Id50, Id51, <<"9", "9">>}

InitRefresh ==
    /\ \E store \in RefreshStores :
           /\ Subspecialty = store[1]
           /\ Template = store[2]
           /\ SubspecialtyTemplate = store[3]
    /\ RunIdle
    /\ RefreshIdle
    /\ ParseIdle
    /\ SyncIdle
    /\ KeywordIdle
    /\ BatchIdle
    /\ RaceIdle

RefreshFrame == UNCHANGED <<Subspecialty, SubspecialtyTemplate, pc, subspecialties,
                            templates, si, ti, subspecialtyMap, stats, result, parseVars,
                            syncVars, keywordVars, batchVars, raceVars>>

NextRefresh ==
    \/ \E k \in TemplateIds : updateSpecificTemplate(k) /\ RefreshFrame
    \/ DetailsFail /\ RefreshFrame
    \/ \E d \in DetailResponses : DetailsReturn(d) /\ RefreshFrame
    \/ Retry /\ RefreshFrame
    \/ ListingFails /\ RefreshFrame
    \/ \E l \in ListingResponses : ListingReturns(l) /\ RefreshFrame

SpecRefresh == InitRefresh /\ [][NextRefresh]_vars

-----------------------------------------------------------------------------
(* parseSpecCode on its own *)

MaxLength == 4
Alphabet == {"C", "T", ",", " "}

NotParsed == <<Undefined>>

SpecCodes == ListsUpTo(Alphabet, MaxLength) \cup {Undefined, CACT, CACTSpaced}

InitParse ==
    /\ Subspecialty = <<>>
    /\ Template = <<>>
    /\ SubspecialtyTemplate = {}
    /\ RunIdle
    /\ RefreshIdle
    /\ SyncIdle
    /\ KeywordIdle
    /\ BatchIdle
    /\ RaceIdle
    /\ specCode \in SpecCodes
    /\ parsed = NotParsed

Parse ==
    /\ parsed = NotParsed
    /\ parsed' = parseSpecCode(specCode)
    /\ UNCHANGED <<storeVars, runVars, refreshVars, specCode,
                   syncVars, keywordVars, batchVars, raceVars>>

NextParse == Parse

SpecParse == InitParse /\ [][NextParse]_vars

-----------------------------------------------------------------------------
(* Properties of parseSpecCode *)

\* the n-th smallest element of a set of numbers
Nth(S, n) == CHOOSE x \in S : Cardinality({y \in S : y < x}) = n - 1

\* the positions that delimit the pieces of s: its commas and its two ends
Cuts(s) == {0, Len(s) + 1} \cup {i \in 1..Len(s) : s[i] = ","}

\* the k-th comma-separated piece of s
Piece(s, k) == SubSeq(s, Nth(Cuts(s), k) + 1, Nth(Cuts(s), k + 1) - 1)

\* a piece without its surrounding whitespace
Stripped(p) ==
    LET solid == {i \in 1..Len(p) : p[i] \notin WhiteSpace}
    IN  IF solid = {} THEN <<>>
        ELSE SubSeq(p, Nth(solid, 1), Nth(solid, Cardinality(solid)))

\* the pieces that are not empty once stripped
Kept(s) == {k \in 1..(Cardinality(Cuts(s)) - 1) : Stripped(Piece(s, k)) # <<>>}

\* C7: parseSpecCode returns the comma-separated pieces of its argument,
\* stripped of surrounding whitespace, without the empty ones, in the order of
\* the argument; "CA, CT ," gives ["CA", "CT"], and a null, undefined or
\* empty argument gives []
C7_ParseSpecCode ==
    parsed # NotParsed =>
        /\ specCode \in {Undefined, <<>>} => parsed = <<>>
        /\ specCode \notin {Undefined, <<>>} =>
               /\ Len(parsed) = Cardinality(Kept(specCode))
               /\ \A n \in 1..Len(parsed) :
                      parsed[n] = Stripped(Piece(specCode, Nth(Kept(specCode), n)))
        /\ specCode = CACTSpaced => parsed = <<CA, CT>>

\* "CA, CT ," has been parsed
C7_Witness == specCode = CACTSpaced /\ parsed = <<CA, CT>>

-----------------------------------------------------------------------------
(* Properties of the refresher *)

Returned == rpc = "done" /\ outcome.returned

Failed(log, n) == Len(log) >= n /\ log[n][1] = "fail"
Answered(log, n) == Len(log) >= n /\ log[n][1] = "ok"

\* the row of the refreshed template now and when the refresh started
Row == Template[inst[1].id]
OldRow == before[2][inst[1].id]

Truthy(v) == ~Falsy(v)
TruthyNumber(v) == v # <<>> /\ v[1] # 0

\* the row carries every value the response holds
Carries(row, d) ==
    /\ Truthy(d.templateData) => row.templateData = d.templateData
    /\ Truthy(d.description) => row.description = d.description
    /\ Truthy(d.author) => row.author = d.author
    /\ Truthy(d.firstname) => row.firstname = d.firstname
    /\ Truthy(d.lastname) => row.lastname = d.lastname
    /\ TruthyNumber(d.downloads) => row.downloads = d.downloads[1]

\* the detail fetch failed twice and answered the third time
ThirdTime == Failed(calls, 1) /\ Failed(calls, 2) /\ Answered(calls, 3)

C9_Fallback ==
    (/\ rpc = "done"
     /\ \A n \in 1..retryAttempts : Failed(calls, n)
     /\ Answered(listings, 1)
     /\ FindBasic(listings[1][2], inst[1].values.template_id) # 0)
    =>
    LET list == listings[1][2]
        b == list[Nth({i \in 1..Len(list) : list[i].template_id = Row.template_id}, 1)]
    IN  /\ outcome = FallbackSuccess
        /\ Len(calls) = retryAttempts
        /\ Len(listings) = 1
        /\ Row.description = (IF Truthy(b.description) THEN b.description ELSE OldRow.description)
        /\ Row.author = (IF Truthy(b.author) THEN b.author ELSE OldRow.author)
        /\ Row.firstname = (IF Truthy(b.firstname) THEN b.firstname ELSE OldRow.firstname)
        /\ Row.lastname = (IF Truthy(b.lastname) THEN b.lastname ELSE OldRow.lastname)
        /\ Row.templateData = OldRow.templateData
        /\ Row.downloads = OldRow.downloads
        /\ \A id \in 1..Len(Template) : id # inst[1].id => Template[id] = before[2][id]

\* three failed attempts, then the listing's record: the attribution is
\* stored, one field is kept, and templateData is still unset
C9_Witness ==
    /\ rpc = "done"
    /\ \A n \in 1..retryAttempts : Failed(calls, n)
    /\ outcome = FallbackSuccess
    /\ OldRow.description = "old description"
    /\ Row.description = "old description"
    /\ OldRow.author = "Dr. Old Author"
    /\ Row.author = "Dr. Basic Author"
    /\ Row.templateData = NULL

\* C10: after a successful detail fetch, a field absent from the response
\* keeps its stored value
C10_AbsentFieldsKept ==
    (Returned /\ outcome = Success) =>
        LET d == calls[Len(calls)][2]
        IN  /\ d.templateData = NULL => Row.templateData = OldRow.templateData
            /\ d.description = NULL => Row.description = OldRow.description
            /\ d.author = NULL => Row.author = OldRow.author
            /\ d.firstname = NULL => Row.firstname = OldRow.firstname
            /\ d.lastname = NULL => Row.lastname = OldRow.lastname
            /\ d.downloads = <<>> => Row.downloads = OldRow.downloads

-----------------------------------------------------------------------------
(* RSNAApiService as its callers see it *)

\* an upstream call resolves with response.data.DATA
Resolved(data) == <<"ok", data>>

\* an upstream call throws: the transport failed or SUCCESS was false
Rejected == <<"fail", <<>>>>

\* faulty variant: a failed call is taken for an empty array
ThrewNever(r) == FALSE

\* the await of an upstream call throws
Threw(r) == r[1] = "fail"

\* { ...template, ...details, template_id: template.template_id }
enrichedTemplate(template, details) ==
    [f \in DOMAIN template |->
        IF f \in DOMAIN details THEN details[f] ELSE template[f]]

\* fetchTemplatesWithDetails: a template whose detail call throws is passed
\* on as the listing delivered it
fetchTemplatesWithDetails(tpls, ds) ==
    [i \in 1..Len(tpls) |->
        IF Threw(ds[i]) THEN tpls[i] ELSE enrichedTemplate(tpls[i], ds[i][2])]

-----------------------------------------------------------------------------
(* SyncController: syncAllData, syncWithDetails, syncSubspecialties,
   syncTemplates *)

\* res.json({ success: true, data })
Json(data) ==
    [sent |-> TRUE, status |-> 200, success |-> TRUE, error |-> NULL, data |-> data]

\* res.status(500).json({ success: false, error })
Status500(error) ==
    [sent |-> TRUE, status |-> 500, success |-> FALSE, error |-> error, data |-> <<>>]

\* the statistics each handler copies into its response
DataFields(name) ==
    CASE name = "syncSubspecialties" -> {"subspecialtiesProcessed", "errors"}
      [] name = "syncTemplates" ->
             {"templatesProcessed", "relationshipsCreated", "errors"}
      [] OTHER -> {"subspecialtiesProcessed", "templatesProcessed",
                   "relationshipsCreated", "errors"}

Data(name, s) == [f \in DataFields(name) |-> s[f]]

\* the error of the handler's else branch and of its catch
FailedError(name) ==
    CASE name = "syncAllData" -> "Data sync failed"
      [] name = "syncWithDetails" -> "Detailed data sync failed"
      [] name = "syncSubspecialties" -> "Subspecialties sync failed"
      [] OTHER -> "Templates sync failed"

CaughtError(name) ==
    CASE name = "syncAllData" -> "Failed to sync data"
      [] name = "syncWithDetails" -> "Failed to sync detailed data"
      [] name = "syncSubspecialties" -> "Failed to sync subspecialties"
      [] OTHER -> "Failed to sync templates"

\* existingSubspecialties.map(sub => ({ code, shortName, name, radlexID, count }))
existingSubspecialties(table) ==
    [i \in 1..Len(table) |->
        [code |-> table[i].code, shortName |-> table[i].shortName,
         name |-> table[i].name, count |-> <<table[i].count>>]]

\* a handler is entered: nothing of the reconciler moves while it fetches
Entered(name) ==
    /\ request = "none"
    /\ request' = name
    /\ before' = <<Subspecialty, Template, SubspecialtyTemplate>>
    /\ UNCHANGED <<storeVars, pc, subspecialties, templates, si, ti,
                   subspecialtyMap, stats, result>>

\* the fetches are over: the catch answers 500 when one of them threw,
\* createRelationships is called with the two arrays otherwise
Fetched(name, threw, subs, tpls) ==
    IF threw
    THEN response' = Status500(CaughtError(name)) /\ UNCHANGED fetched
    ELSE fetched' = <<subs, tpls>> /\ UNCHANGED response

\* Promise.all of the two fetches (lines 15-18)
syncAllData(s, t) ==
    /\ Entered("syncAllData")
    /\ upstream' = <<<<"fetchSubspecialties", s[1]>>, <<"fetchTemplates", t[1]>>>>
    /\ Fetched("syncAllData", Threw(s) \/ Threw(t), s[2], t[2])

\* fetchSubspecialties, then fetchTemplatesWithDetails (lines 61-65)
syncWithDetails(s, t, ds) ==
    /\ Entered("syncWithDetails")
    /\ upstream' =
           <<<<"fetchSubspecialties", s[1]>>>>
           \o (IF Threw(s) THEN <<>> ELSE <<<<"fetchTemplates", t[1]>>>>)
           \o (IF Threw(s) \/ Threw(t) THEN <<>>
               ELSE [i \in 1..Len(t[2]) |-> <<"fetchTemplateDetails", ds[i][1]>>])
    /\ Fetched("syncWithDetails", Threw(s) \/ Threw(t), s[2],
               IF Threw(t) THEN <<>> ELSE fetchTemplatesWithDetails(t[2], ds))

\* fetchSubspecialties, and an empty templates array (lines 106-110)
syncSubspecialties(s) ==
    /\ Entered("syncSubspecialties")
    /\ upstream' = <<<<"fetchSubspecialties", s[1]>>>>
    /\ Fetched("syncSubspecialties", Threw(s), s[2], <<>>)

\* fetchTemplates, and the stored subspecialties (lines 145-166)
syncTemplates(t) ==
    /\ Entered("syncTemplates")
    /\ upstream' = <<<<"fetchTemplates", t[1]>>>>
    /\ Fetched("syncTemplates", Threw(t), existingSubspecialties(Subspecialty), t[2])

\* await relationshipService.createRelationships(subspecialties, templates)
Reconcile ==
    /\ request # "none"
    /\ fetched # <<>>
    /\ Call(fetched[1], fetched[2])
    /\ UNCHANGED syncVars

ReconcileFails ==
    /\ request # "none"
    /\ fetched # <<>>
    /\ CallFails(fetched[1], fetched[2])
    /\ UNCHANGED syncVars

\* the handler answers with the run's result (lines 25-42)
Respond ==
    /\ request # "none"
    /\ pc = "done"
    /\ ~response.sent
    /\ response' = IF result = "success"
                   THEN Json(Data(request, stats))
                   ELSE Status500(FailedError(request))
    /\ UNCHANGED <<storeVars, runVars, request, upstream, fetched>>

-----------------------------------------------------------------------------
(* The controller's synchronisations on their own *)

SubspecialtyResponses ==
    {Rejected} \cup
    {Resolved(l) : l \in {<<>>, <<RawCA, RawCT>>, <<RawCANoName, RawCT, RawNR>>}}

TemplateResponses ==
    {Rejected} \cup
    {Resolved(l) : l \in
        { <<>>,
          <<RawTemplate(Id50, "Cardiac CT", CACT)>>,
          <<RawTemplate(Id50, "Cardiac CT", CACT), RawTemplate(Id51, "", CT)>>,
          <<RawTemplate(Id51, "Chest CT", CACTSpaced), RawTemplate(Id50, "Brain MR", NR)>> }}

DetailChoices ==
    { Rejected,
      Resolved([templateData |-> "<html>new</html>", description |-> "new description",
                author |-> "Dr. New Author", firstname |-> "New",
                lastname |-> "Author", downloads |-> <<9>>]) }

InitSync ==
    /\ \E store \in Stores :
           /\ Subspecialty = store[1]
           /\ Template = store[2]
           /\ SubspecialtyTemplate = store[3]
    /\ RunIdle
    /\ RefreshIdle
    /\ ParseIdle
    /\ SyncIdle
    /\ KeywordIdle
    /\ BatchIdle
    /\ RaceIdle

SyncFrame == UNCHANGED <<refreshVars, parseVars, keywordVars, batchVars, raceVars>>

NextSync ==
    \/ \E s \in SubspecialtyResponses, d \in TemplateResponses :
           syncAllData(s, d) /\ SyncFrame
    \/ \E s \in SubspecialtyResponses, d \in TemplateResponses :
           \E ds \in [1..Len(d[2]) -> DetailChoices] :
               syncWithDetails(s, d, ds) /\ SyncFrame
    \/ \E s \in SubspecialtyResponses : syncSubspecialties(s) /\ SyncFrame
    \/ \E d \in TemplateResponses : syncTemplates(d) /\ SyncFrame
    \/ Reconcile /\ SyncFrame
    \/ ReconcileFails /\ SyncFrame
    \/ (request # "none" /\ CreateSubspecialty /\ UNCHANGED syncVars) /\ SyncFrame
    \/ (request # "none" /\ CreateTemplate /\ UNCHANGED syncVars) /\ SyncFrame
    \/ (request # "none" /\ Finish /\ UNCHANGED syncVars) /\ SyncFrame
    \/ (request # "none" /\ FinishFails /\ UNCHANGED syncVars) /\ SyncFrame
    \/ Respond /\ SyncFrame

SpecSync == InitSync /\ [][NextSync]_vars

-----------------------------------------------------------------------------
(* Properties of the controller's synchronisations *)

\* a call that fetches subspecialties or templates has thrown
UpstreamFailed ==
    \E i \in 1..Len(upstream) :
        /\ upstream[i][1] \in {"fetchSubspecialties", "fetchTemplates"}
        /\ upstream[i][2] = "fail"

\* C11: when the upstream client fails to return the subspecialties or the
\* templates of a synchronisation, the handler answers success: false,
\* createRelationships is never called and the three tables are as they were
\* when the handler was entered.
C11_FetchFailurePropagates ==
    UpstreamFailed =>
        /\ response.sent
        /\ ~response.success
        /\ response.status = 500
        /\ response.error = CaughtError(request)
        /\ fetched = <<>>
        /\ pc = "idle"
        /\ stats = NoStats
        /\ <<Subspecialty, Template, SubspecialtyTemplate>> = before

\* a synchronisation whose fetch failed on a store that holds links
C11_Witness ==
    /\ UpstreamFailed
    /\ response.sent
    /\ SubspecialtyTemplate # {}
    /\ request = "syncAllData"
    /\ upstream[1][2] = "ok"

-----------------------------------------------------------------------------
(* TemplateDataService.updateSingleTemplate and fallbackUpdate as one call,
   for the batch operations that run them as promises *)

\* fallbackUpdate(template): row is the stored row, t the instance in memory,
\* listing the outcome of fetchTemplates
fallbackUpdate(row, t, listing) ==
    IF Threw(listing)
    THEN [row |-> row, value |-> Failure("Failed to fetch templates")]
    ELSE LET i == FindBasic(listing[2], t.template_id)
         IN  IF i = 0
             THEN [row |-> row,
                   value |-> Failure("Template not found in basic templates list")]
             ELSE LET values == BasicValues(t, listing[2][i])
                  IN  [row |-> Saved(row, Set(t, values), DOMAIN values),
                       value |-> FallbackSuccess]

\* updateSingleTemplate(template) from attempt n on: details[n] is the outcome
\* of the n-th fetchTemplateDetails
RECURSIVE updateSingleTemplate(_, _, _, _, _)
updateSingleTemplate(row, t, n, details, listing) ==
    LET values == DetailValues(t, details[n][2])
        set == Set(t, values)
    IN  IF ~Threw(details[n]) /\ SaveAccepts(set, DOMAIN values)
        THEN [row |-> Saved(row, set, DOMAIN values), value |-> Success]
        ELSE LET kept == IF Threw(details[n]) THEN t ELSE set
             IN  IF LastAttempt(n)
                 THEN fallbackUpdate(row, kept, listing)
                 ELSE updateSingleTemplate(row, kept, n + 1, details, listing)

-----------------------------------------------------------------------------
(* TemplateGeneratorService.generateTemplateData *)

\* the authors generateAuthor draws from, with the words split(' ') gives
authors ==
    << [author |-> "Dr. Sarah Johnson", firstname |-> "Sarah", lastname |-> "Johnson"],
       [author |-> "Dr. Michael Chen", firstname |-> "Michael", lastname |-> "Chen"],
       [author |-> "Dr. Emily Rodriguez", firstname |-> "Emily", lastname |-> "Rodriguez"],
       [author |-> "Dr. David Kim", firstname |-> "David", lastname |-> "Kim"],
       [author |-> "Dr. Lisa Thompson", firstname |-> "Lisa", lastname |-> "Thompson"],
       [author |-> "Dr. Robert Wilson", firstname |-> "Robert", lastname |-> "Wilson"],
       [author |-> "Dr. Jennifer Davis", firstname |-> "Jennifer", lastname |-> "Davis"],
       [author |-> "Dr. Christopher Brown", firstname |-> "Christopher", lastname |-> "Brown"],
       [author |-> "Dr. Amanda Garcia", firstname |-> "Amanda", lastname |-> "Garcia"],
       [author |-> "Dr. Matthew Taylor", firstname |-> "Matthew", lastname |-> "Taylor"],
       [author |-> "Dr. Jessica Martinez", firstname |-> "Jessica", lastname |-> "Martinez"],
       [author |-> "Dr. Daniel Anderson", firstname |-> "Daniel", lastname |-> "Anderson"] >>

\* faulty variant: the words of the drawn name are taken at indices 0 and 1,
\* so that firstname is the title and lastname the first name
GeneratedValuesFirstWord(draw) ==
    [templateData |-> "<!DOCTYPE html>",
     description |-> "title - specialty template with structured reporting format.",
     author |-> authors[draw[1]].author,
     firstname |-> "Dr.",
     lastname |-> authors[draw[3]].firstname]

\* the object generateTemplateData passes to template.update (lines 80-86):
\* the document and the description are opaque texts here, and draw holds
\* the three indices Math.random gave generateAuthor, generateFirstName and
\* generateLastName
GeneratedValues(draw) ==
    [templateData |-> "<!DOCTYPE html>",
     description |-> "title - specialty template with structured reporting format.",
     author |-> authors[draw[1]].author,
     firstname |-> authors[draw[2]].firstname,
     lastname |-> authors[draw[3]].lastname]

\* generateTemplateData(template): true when template.update resolved, false
\* when it threw
generateTemplateData(row, values, accepted) ==
    IF accepted
    THEN [row |-> Saved(row, Set(row, values), DOMAIN values), value |-> TRUE]
    ELSE [row |-> row, value |-> FALSE]

-----------------------------------------------------------------------------
(* The batch operations: TemplateDataService.updateAllTemplateData with
   processBatch, and TemplateGeneratorService.generateAllTemplateData *)

batchSize == 5
generateBatchSize == 10

BatchSize(j) == IF j = "generateAllTemplateData" THEN generateBatchSize ELSE batchSize

\* where: { templateData: null }
WithoutData(table) == {i \in 1..Len(table) : table[i].templateData = NULL}

\* order: [['views', 'DESC']]: every order of the ids by descending views;
\* rows with equal views come in any order
RECURSIVE ByViewsDesc(_, _)
ByViewsDesc(table, ids) ==
    IF ids = {} THEN {<<>>}
    ELSE UNION { {<<m>> \o rest : rest \in ByViewsDesc(table, ids \ {m})} :
                 m \in {i \in ids : \A j \in ids : table[j].views <= table[i].views} }

\* faulty variant: the batch is everything from i on
sliceToEnd(list, i, n) == SubSeq(list, i + 1, Len(list))

\* templatesWithoutData.slice(i, i + batchSize)
slice(list, i, n) ==
    SubSeq(list, i + 1, IF i + n < Len(list) THEN i + n ELSE Len(list))

\* the return values of the two operations
UpdateSummary(u, f) == [returned |-> TRUE, success |-> TRUE, updated |-> u, failed |-> f]
GenerateSummary(u) == [returned |-> TRUE, success |-> TRUE, updated |-> u]
ErrorSummary == [returned |-> TRUE, success |-> FALSE]

Summary(j, u, f) ==
    IF j = "generateAllTemplateData" THEN GenerateSummary(u) ELSE UpdateSummary(u, f)

\* the operation starts: Template.findAll, and the early return when nothing
\* is selected
Selected(j) ==
    /\ job = "none"
    /\ job' = j
    /\ \E order \in ByViewsDesc(Template, WithoutData(Template)) :
           /\ templatesWithoutData' = order
           /\ IF order = <<>>
              THEN bpc' = "done" /\ summary' = Summary(j, 0, 0)
              ELSE bpc' = "loop" /\ UNCHANGED summary
    /\ UNCHANGED <<Template, offset, promises, dispatched, updated, failed, results>>

updateAllTemplateData == Selected("updateAllTemplateData")

generateAllTemplateData == Selected("generateAllTemplateData")

\* Template.findAll throws: the catch returns success: false
FindAllFails(j) ==
    /\ job = "none"
    /\ job' = j
    /\ bpc' = "done"
    /\ summary' = ErrorSummary
    /\ UNCHANGED <<Template, templatesWithoutData, offset, promises, dispatched,
                   updated, failed, results>>

\* faulty variant: a fulfilled promise counts as updated whatever its value
CountsAsUpdatedAlways(j, value) == TRUE

\* result.status === 'fulfilled' && result.value.success in processBatch,
\* result.status === 'fulfilled' && result.value in generateAllTemplateData
CountsAsUpdated(j, value) ==
    IF j = "generateAllTemplateData" THEN value ELSE value.success

\* what the upstream can answer while one template of a batch is refreshed:
\* the outcomes of the three detail calls and of the listing call
Scenario(d1, d2, d3, listing) == [details |-> <<d1, d2, d3>>, listing |-> listing]

FullDetails ==
    Details("<html>new</html>", "new description", "Dr. New Author", "New", "Author", <<9>>)

BareDetails == Details(NULL, "new description", NULL, NULL, NULL, <<>>)

Scenarios(k, tid) ==
    IF k % 2 = 1
    THEN { Scenario(Resolved(FullDetails), Rejected, Rejected, Rejected),
           Scenario(Rejected, Rejected, Rejected,
                    IF k % 4 = 1 THEN Rejected ELSE Resolved(<<>>)) }
    ELSE { Scenario(Rejected, Rejected, Resolved(BareDetails), Rejected),
           Scenario(Rejected, Rejected, Rejected,
                    Resolved(<<Basic(tid, "basic description", "Dr. Basic Author",
                                     "Basic", "Author")>>)) }

\* one promise of the batch, not settled
Promise(id, values) == [id |-> id, settled |-> FALSE, values |-> values]

\* the loop takes the next batch and creates its promises: batch.map runs
\* every call up to its first await (lines 41-44, 390-393 and 424)
Dispatch(draws) ==
    /\ bpc = "loop"
    /\ LET batch == slice(templatesWithoutData, offset, BatchSize(job))
       IN  /\ promises' =
                  [k \in 1..Len(batch) |->
                      Promise(batch[k],
                              IF job = "generateAllTemplateData"
                              THEN GeneratedValues(draws[k]) ELSE <<>>)]
           /\ dispatched' = dispatched \o batch
    /\ bpc' = "batch"
    /\ UNCHANGED <<Template, job, templatesWithoutData, offset, updated, failed,
                   results, summary>>

Settled(k, r) ==
    /\ Template' = [Template EXCEPT ![promises[k].id] = r.row]
    /\ promises' = [promises EXCEPT ![k].settled = TRUE]
    /\ results' = results \cup {<<promises[k].id, CountsAsUpdated(job, r.value)>>}
    /\ UNCHANGED <<job, bpc, templatesWithoutData, offset, dispatched, updated,
                   failed, summary>>

\* one updateSingleTemplate of the batch runs to its return
SettleUpdate(k) ==
    /\ bpc = "batch"
    /\ job = "updateAllTemplateData"
    /\ k \in DOMAIN promises
    /\ ~promises[k].settled
    /\ LET row == Template[promises[k].id]
       IN  \E x \in Scenarios(k, row.template_id) :
               Settled(k, updateSingleTemplate(row, row, 1, x.details, x.listing))

\* one generateTemplateData of the batch runs to its return
SettleGenerate(k, accepted) ==
    /\ bpc = "batch"
    /\ job = "generateAllTemplateData"
    /\ k \in DOMAIN promises
    /\ ~promises[k].settled
    /\ Settled(k, generateTemplateData(Template[promises[k].id], promises[k].values, accepted))

\* Promise.allSettled has resolved: the results are counted, and the loop
\* pauses before the next batch or the operation returns
Collect ==
    /\ bpc = "batch"
    /\ \A k \in DOMAIN promises : promises[k].settled
    /\ LET ids == {promises[k].id : k \in DOMAIN promises}
           good == Cardinality({id \in ids : <<id, TRUE>> \in results})
           u == updated + good
           f == IF job = "generateAllTemplateData" THEN failed
                ELSE failed + (Cardinality(ids) - good)
       IN  /\ updated' = u
           /\ failed' = f
           /\ IF offset + BatchSize(job) < Len(templatesWithoutData)
              THEN bpc' = "pause" /\ UNCHANGED summary
              ELSE bpc' = "done" /\ summary' = Summary(job, u, f)
    /\ promises' = <<>>
    /\ UNCHANGED <<Template, job, templatesWithoutData, offset, dispatched, results>>

\* the setTimeout between two batches has fired: i += batchSize
Pause ==
    /\ bpc = "pause"
    /\ offset' = offset + BatchSize(job)
    /\ bpc' = "loop"
    /\ UNCHANGED <<Template, job, templatesWithoutData, promises, dispatched,
                   updated, failed, results, summary>>

\* SyncController.updateTemplateData and generateAllTemplateData answer with
\* the operation's return value
RespondSummary ==
    /\ job # "none"
    /\ bpc = "done"
    /\ ~response.sent
    /\ response' =
           IF ~summary.success
           THEN Status500(IF job = "generateAllTemplateData"
                          THEN "Template data generation failed"
                          ELSE "Template data update failed")
           ELSE IF job = "generateAllTemplateData"
           THEN Json([updated |-> summary.updated])
           ELSE Json([updated |-> summary.updated, failed |-> summary.failed,
                      total |-> summary.updated + summary.failed])
    /\ UNCHANGED <<Template, batchVars, request, upstream, fetched>>

-----------------------------------------------------------------------------
(* The batch operations on their own *)

\* the number of stored templates without a document
Backlog == 11

Digits == <<"0", "1", "2", "3", "4", "5", "6", "7", "8", "9">>

\* the template_id of the n-th template of the backlog
BacklogId(n) == <<Digits[(n \div 10) + 1], Digits[(n % 10) + 1]>>

\* the n-th template of the backlog as the listing delivered it
BacklogTemplate(n, views) ==
    [RawTemplate(BacklogId(n), "Cardiac CT", CACT) EXCEPT !.views = <<views>>]

WithDocument ==
    Enriched(Id50, "<html>old</html>", "old description", "Dr. Old Author",
             "Old", "Author", <<5>>)

\* the synchronisations that left the stores the batch operations start
\* from: a backlog with a different number of views on every row, two rows
\* with the same number of views, and no row without a document
BatchSyncs ==
    { [n \in 1..(Backlog + 1) |->
          IF n = Backlog + 1 THEN WithDocument
          ELSE BacklogTemplate(n, (n * 5) % (Backlog + 2))],
      <<BacklogTemplate(1, 4), WithDocument, BacklogTemplate(2, 4)>>,
      <<WithDocument>> }

BatchStores ==
    {createRelationships(<<>>, <<>>, {}, <<RawCA, RawCT>>, tpls) : tpls \in BatchSyncs}

\* the indices Math.random gives the three draws of the k-th template of a
\* batch
Draws ==
    { [k \in 1..generateBatchSize |-> <<1, 1, 1>>],
      [k \in 1..generateBatchSize |-> <<k, (k % 12) + 1, ((k + 1) % 12) + 1>>] }

InitBatch ==
    /\ \E store \in BatchStores :
           /\ Subspecialty = store[1]
           /\ Template = store[2]
           /\ SubspecialtyTemplate = store[3]
    /\ RunIdle
    /\ RefreshIdle
    /\ ParseIdle
    /\ SyncIdle
    /\ KeywordIdle
    /\ BatchIdle
    /\ RaceIdle

BatchFrame ==
    UNCHANGED <<Subspecialty, SubspecialtyTemplate, runVars, refreshVars, parseVars,
                keywordVars, raceVars>>

SummaryFrame == UNCHANGED <<request, upstream, fetched, response>>

NextBatch ==
    \/ updateAllTemplateData /\ SummaryFrame /\ BatchFrame
    \/ generateAllTemplateData /\ SummaryFrame /\ BatchFrame
    \/ \E j \in {"updateAllTemplateData", "generateAllTemplateData"} :
           FindAllFails(j) /\ SummaryFrame /\ BatchFrame
    \/ \E draws \in Draws : Dispatch(draws) /\ SummaryFrame /\ BatchFrame
    \/ \E k \in 1..generateBatchSize : SettleUpdate(k) /\ SummaryFrame /\ BatchFrame
    \/ \E k \in 1..generateBatchSize, accepted \in BOOLEAN :
           SettleGenerate(k, accepted) /\ SummaryFrame /\ BatchFrame
    \/ Collect /\ SummaryFrame /\ BatchFrame
    \/ Pause /\ SummaryFrame /\ BatchFrame
    \/ RespondSummary /\ BatchFrame

SpecBatch == InitBatch /\ [][NextBatch]_vars

-----------------------------------------------------------------------------
(* Properties of the batch operations *)

\* the templates whose promise settled without an update
FailedItems == {id \in Elements(dispatched) : <<id, FALSE>> \in results}

\* C12: no operation loses failure information: once a batch operation has
\* returned, and once the controller has answered, every template that
\* failed during the operation is reflected in a failed count (the batch
\* operations keep no errors list).
C12_NoFailureLost ==
    /\ (summary.returned /\ summary.success /\ FailedItems # {}) =>
           /\ "failed" \in DOMAIN summary
           /\ summary.failed = Cardinality(FailedItems)
    /\ (job # "none" /\ response.sent /\ response.success /\ FailedItems # {}) =>
           /\ "failed" \in DOMAIN response.data
           /\ response.data.failed = Cardinality(FailedItems)

-----------------------------------------------------------------------------
(* TemplateGeneratorService.createTemplateHTML: the texts of the sections
   that depend on the specialty.  A specialty is the sequence of its
   characters. *)

UpperCase ==
    <<"A", "B", "C", "D", "E", "F", "G", "H", "I", "J", "K", "L", "M",
      "N", "O", "P", "Q", "R", "S", "T", "U", "V", "W", "X", "Y", "Z">>

LowerCase ==
    <<"a", "b", "c", "d", "e", "f", "g", "h", "i", "j", "k", "l", "m",
      "n", "o", "p", "q", "r", "s", "t", "u", "v", "w", "x", "y", "z">>

\* faulty variant: the specialty is compared as it is written
toLowerCaseSkipped(s) == s

\* String.prototype.toLowerCase
toLowerCase(s) ==
    [i \in 1..Len(s) |->
        IF \E n \in 1..26 : UpperCase[n] = s[i]
        THEN LowerCase[CHOOSE n \in 1..26 : UpperCase[n] = s[i]]
        ELSE s[i]]

\* String.prototype.includes
includes(s, w) == \E i \in 0..(Len(s) - Len(w)) : SubSeq(s, i + 1, i + Len(w)) = w

\* the literals the three generators test for
keyword ==
    [ mri |-> <<"m", "r", "i">>,
      magneticResonance |->
          <<"m", "a", "g", "n", "e", "t", "i", "c", " ", "r", "e", "s", "o", "n", "a", "n", "c", "e">>,
      ct |-> <<"c", "t">>,
      computedTomography |->
          <<"c", "o", "m", "p", "u", "t", "e", "d", " ", "t", "o", "m", "o", "g", "r", "a", "p", "h", "y">>,
      chest |-> <<"c", "h", "e", "s", "t">>,
      lung |-> <<"l", "u", "n", "g">>,
      breast |-> <<"b", "r", "e", "a", "s", "t">>,
      cardiac |-> <<"c", "a", "r", "d", "i", "a", "c">>,
      heart |-> <<"h", "e", "a", "r", "t">>,
      neuro |-> <<"n", "e", "u", "r", "o">>,
      brain |-> <<"b", "r", "a", "i", "n">>,
      spine |-> <<"s", "p", "i", "n", "e">>,
      abdomen |-> <<"a", "b", "d", "o", "m", "e", "n">>,
      abdominal |-> <<"a", "b", "d", "o", "m", "i", "n", "a", "l">>,
      musculoskeletal |->
          <<"m", "u", "s", "c", "u", "l", "o", "s", "k", "e", "l", "e", "t", "a", "l">>,
      msk |-> <<"m", "s", "k">> ]

\* faulty variant: the chest test comes before the ct test
generateFindingsChestFirst(s) ==
    LET specialtyLower == toLowerCase(s)
    IN  IF includes(specialtyLower, keyword.mri) \/ includes(specialtyLower, keyword.magneticResonance)
        THEN "Normal signal intensity throughout. No evidence of acute pathology. Normal anatomical structures are preserved. No abnormal enhancement following contrast administration."
        ELSE IF includes(specialtyLower, keyword.chest) \/ includes(specialtyLower, keyword.lung)
        THEN "Clear lung fields bilaterally. Normal cardiac silhouette. No acute cardiopulmonary process. Normal mediastinal contours."
        ELSE IF includes(specialtyLower, keyword.ct) \/ includes(specialtyLower, keyword.computedTomography)
        THEN "Normal attenuation values. No evidence of acute pathology. Normal anatomical structures are preserved. No abnormal enhancement following contrast administration."
        ELSE IF includes(specialtyLower, keyword.breast)
        THEN "No suspicious masses or calcifications. Normal breast parenchyma. No architectural distortion. BI-RADS Category 1: Negative."
        ELSE IF includes(specialtyLower, keyword.cardiac) \/ includes(specialtyLower, keyword.heart)
        THEN "Normal cardiac function. No wall motion abnormalities. Normal coronary anatomy. No evidence of ischemia or infarction."
        ELSE IF includes(specialtyLower, keyword.neuro) \/ includes(specialtyLower, keyword.brain)
        THEN "Normal brain parenchyma. No acute intracranial abnormality. Normal ventricular system. No mass effect or midline shift."
        ELSE IF includes(specialtyLower, keyword.spine)
        THEN "Normal vertebral alignment. No evidence of fracture or dislocation. Normal disc spaces. No spinal canal stenosis."
        ELSE IF includes(specialtyLower, keyword.abdomen) \/ includes(specialtyLower, keyword.abdominal)
        THEN "Normal abdominal organs. No acute pathology. Normal bowel gas pattern. No free air or fluid collections."
        ELSE IF includes(specialtyLower, keyword.musculoskeletal) \/ includes(specialtyLower, keyword.msk)
        THEN "Normal bone marrow signal. No evidence of fracture or dislocation. Normal joint spaces. No soft tissue abnormalities."
        ELSE "Normal study. No acute abnormality identified."

\* generateProcedureInfo (lines 213-237)
generateProcedureInfo(s) ==
    LET specialtyLower == toLowerCase(s)
    IN  IF includes(specialtyLower, keyword.mri) \/ includes(specialtyLower, keyword.magneticResonance)
        THEN "Sagittal T1, T2, STIR, Axial T1, T2, and Coronal T2 sequences."
        ELSE IF includes(specialtyLower, keyword.ct) \/ includes(specialtyLower, keyword.computedTomography)
        THEN "Axial and coronal CT images with and without contrast."
        ELSE IF includes(specialtyLower, keyword.chest) \/ includes(specialtyLower, keyword.lung)
        THEN "PA and lateral chest radiographs."
        ELSE IF includes(specialtyLower, keyword.breast)
        THEN "CC and MLO mammographic views."
        ELSE IF includes(specialtyLower, keyword.cardiac) \/ includes(specialtyLower, keyword.heart)
        THEN "ECG-gated cardiac imaging with contrast enhancement."
        ELSE IF includes(specialtyLower, keyword.neuro) \/ includes(specialtyLower, keyword.brain)
        THEN "Axial T1, T2, FLAIR, and DWI sequences."
        ELSE IF includes(specialtyLower, keyword.spine)
        THEN "Sagittal T1, T2, STIR, and axial T2 sequences."
        ELSE IF includes(specialtyLower, keyword.abdomen) \/ includes(specialtyLower, keyword.abdominal)
        THEN "Axial CT images through the abdomen and pelvis with IV contrast."
        ELSE IF includes(specialtyLower, keyword.musculoskeletal) \/ includes(specialtyLower, keyword.msk)
        THEN "Multiplanar imaging with T1 and T2 weighted sequences."
        ELSE "Standard imaging protocol as per institutional guidelines."

\* generateFindings (lines 249-273)
generateFindings(s) ==
    LET specialtyLower == toLowerCase(s)
    IN  IF includes(specialtyLower, keyword.mri) \/ includes(specialtyLower, keyword.magneticResonance)
        THEN "Normal signal intensity throughout. No evidence of acute pathology. Normal anatomical structures are preserved. No abnormal enhancement following contrast administration."
        ELSE IF includes(specialtyLower, keyword.ct) \/ includes(specialtyLower, keyword.computedTomography)
        THEN "Normal attenuation values. No evidence of acute pathology. Normal anatomical structures are preserved. No abnormal enhancement following contrast administration."
        ELSE IF includes(specialtyLower, keyword.chest) \/ includes(specialtyLower, keyword.lung)
        THEN "Clear lung fields bilaterally. Normal cardiac silhouette. No acute cardiopulmonary process. Normal mediastinal contours."
        ELSE IF includes(specialtyLower, keyword.breast)
        THEN "No suspicious masses or calcifications. Normal breast parenchyma. No architectural distortion. BI-RADS Category 1: Negative."
        ELSE IF includes(specialtyLower, keyword.cardiac) \/ includes(specialtyLower, keyword.heart)
        THEN "Normal cardiac function. No wall motion abnormalities. Normal coronary anatomy. No evidence of ischemia or infarction."
        ELSE IF includes(specialtyLower, keyword.neuro) \/ includes(specialtyLower, keyword.brain)
        THEN "Normal brain parenchyma. No acute intracranial abnormality. Normal ventricular system. No mass effect or midline shift."
        ELSE IF includes(specialtyLower, keyword.spine)
        THEN "Normal vertebral alignment. No evidence of fracture or dislocation. Normal disc spaces. No spinal canal stenosis."
        ELSE IF includes(specialtyLower, keyword.abdomen) \/ includes(specialtyLower, keyword.abdominal)
        THEN "Normal abdominal organs. No acute pathology. Normal bowel gas pattern. No free air or fluid collections."
        ELSE IF includes(specialtyLower, keyword.musculoskeletal) \/ includes(specialtyLower, keyword.msk)
        THEN "Normal bone marrow signal. No evidence of fracture or dislocation. Normal joint spaces. No soft tissue abnormalities."
        ELSE "Normal study. No acute abnormality identified."

\* generateImpression (lines 278-302)
generateImpression(s) ==
    LET specialtyLower == toLowerCase(s)
    IN  IF includes(specialtyLower, keyword.mri) \/ includes(specialtyLower, keyword.magneticResonance)
        THEN "Normal MRI study. No acute abnormality."
        ELSE IF includes(specialtyLower, keyword.ct) \/ includes(specialtyLower, keyword.computedTomography)
        THEN "Normal CT study. No acute abnormality."
        ELSE IF includes(specialtyLower, keyword.chest) \/ includes(specialtyLower, keyword.lung)
        THEN "Normal chest radiograph. No acute cardiopulmonary process."
        ELSE IF includes(specialtyLower, keyword.breast)
        THEN "BI-RADS Category 1: Negative. No evidence of malignancy."
        ELSE IF includes(specialtyLower, keyword.cardiac) \/ includes(specialtyLower, keyword.heart)
        THEN "Normal cardiac function. No evidence of coronary artery disease."
        ELSE IF includes(specialtyLower, keyword.neuro) \/ includes(specialtyLower, keyword.brain)
        THEN "Normal brain MRI. No acute intracranial abnormality."
        ELSE IF includes(specialtyLower, keyword.spine)
        THEN "Normal spine MRI. No acute abnormality."
        ELSE IF includes(specialtyLower, keyword.abdomen) \/ includes(specialtyLower, keyword.abdominal)
        THEN "Normal abdominal CT. No acute abnormality."
        ELSE IF includes(specialtyLower, keyword.musculoskeletal) \/ includes(specialtyLower, keyword.msk)
        THEN "Normal musculoskeletal MRI. No acute abnormality."
        ELSE "Normal study. No acute abnormality."

\* template.specialty || 'Radiology'
SpecialtyOrRadiology(s) ==
    IF s = Undefined \/ s = <<>> THEN <<"R", "a", "d", "i", "o", "l", "o", "g", "y">> ELSE s

\* createTemplateHTML (lines 98-106): the three texts it embeds
SectionTexts(s) ==
    [procedureInformation |-> generateProcedureInfo(SpecialtyOrRadiology(s)),
     findings |-> generateFindings(SpecialtyOrRadiology(s)),
     impression |-> generateImpression(SpecialtyOrRadiology(s))]

-----------------------------------------------------------------------------
(* createTemplateHTML on its own *)

\* the words a specialty is made of
Word ==
    [ MRI |-> <<"M", "R", "I">>,
      MagneticResonance |->
          <<"M", "a", "g", "n", "e", "t", "i", "c", " ", "R", "e", "s", "o", "n", "a", "n", "c", "e">>,
      CTScan |-> <<"C", "T">>,
      ComputedTomography |->
          <<"C", "o", "m", "p", "u", "t", "e", "d", " ", "T", "o", "m", "o", "g", "r", "a", "p", "h", "y">>,
      Chest |-> <<"C", "h", "e", "s", "t">>,
      Lung |-> <<"L", "u", "n", "g">>,
      Breast |-> <<"B", "r", "e", "a", "s", "t">>,
      Cardiac |-> <<"C", "a", "r", "d", "i", "a", "c">>,
      Heart |-> <<"H", "e", "a", "r", "t">>,
      Neuro |-> <<"N", "e", "u", "r", "o">>,
      Brain |-> <<"B", "r", "a", "i", "n">>,
      Spine |-> <<"S", "p", "i", "n", "e">>,
      Abdomen |-> <<"A", "b", "d", "o", "m", "e", "n">>,
      Abdominal |-> <<"A", "b", "d", "o", "m", "i", "n", "a", "l">>,
      Musculoskeletal |->
          <<"M", "u", "s", "c", "u", "l", "o", "s", "k", "e", "l", "e", "t", "a", "l">>,
      MSK |-> <<"M", "S", "K">>,
      Radiology |-> <<"R", "a", "d", "i", "o", "l", "o", "g", "y">>,
      Reproductive |->
          <<"R", "e", "p", "r", "o", "d", "u", "c", "t", "i", "v", "e">>,
      Pediatric |-> <<"P", "e", "d", "i", "a", "t", "r", "i", "c">>,
      Imaging |-> <<"i", "m", "a", "g", "i", "n", "g">> ]

Words == {Word[w] : w \in DOMAIN Word}

\* the number of words of a specialty
MaxWords == 2

RECURSIVE Phrases(_)
Phrases(n) ==
    IF n = 1 THEN Words
    ELSE Phrases(n - 1) \cup {p \o <<" ">> \o w : p \in Phrases(n - 1), w \in Words}

Specialties == Phrases(MaxWords) \cup {<<>>, Undefined}

InitKeyword ==
    /\ Subspecialty = <<>>
    /\ Template = <<>>
    /\ SubspecialtyTemplate = {}
    /\ RunIdle
    /\ RefreshIdle
    /\ ParseIdle
    /\ SyncIdle
    /\ BatchIdle
    /\ RaceIdle
    /\ specialty \in Specialties
    /\ sections = NoSections

createTemplateHTML ==
    /\ sections = NoSections
    /\ sections' = SectionTexts(specialty)
    /\ UNCHANGED <<storeVars, runVars, refreshVars, parseVars, syncVars, batchVars, raceVars,
                   specialty>>

NextKeyword == createTemplateHTML

SpecKeyword == InitKeyword /\ [][NextKeyword]_vars

-----------------------------------------------------------------------------
(* Properties of the section texts *)

ChestCT == Word.Chest \o <<" ">> \o Word.CTScan

\* the texts by branch: the nine keyword branches in the order of the
\* conditionals, then the generic one
ProcedureTexts ==
    << "Sagittal T1, T2, STIR, Axial T1, T2, and Coronal T2 sequences.",
       "Axial and coronal CT images with and without contrast.",
       "PA and lateral chest radiographs.",
       "CC and MLO mammographic views.",
       "ECG-gated cardiac imaging with contrast enhancement.",
       "Axial T1, T2, FLAIR, and DWI sequences.",
       "Sagittal T1, T2, STIR, and axial T2 sequences.",
       "Axial CT images through the abdomen and pelvis with IV contrast.",
       "Multiplanar imaging with T1 and T2 weighted sequences.",
       "Standard imaging protocol as per institutional guidelines." >>

FindingsTexts ==
    << "Normal signal intensity throughout. No evidence of acute pathology. Normal anatomical structures are preserved. No abnormal enhancement following contrast administration.",
       "Normal attenuation values. No evidence of acute pathology. Normal anatomical structures are preserved. No abnormal enhancement following contrast administration.",
       "Clear lung fields bilaterally. Normal cardiac silhouette. No acute cardiopulmonary process. Normal mediastinal contours.",
       "No suspicious masses or calcifications. Normal breast parenchyma. No architectural distortion. BI-RADS Category 1: Negative.",
       "Normal cardiac function. No wall motion abnormalities. Normal coronary anatomy. No evidence of ischemia or infarction.",
       "Normal brain parenchyma. No acute intracranial abnormality. Normal ventricular system. No mass effect or midline shift.",
       "Normal vertebral alignment. No evidence of fracture or dislocation. Normal disc spaces. No spinal canal stenosis.",
       "Normal abdominal organs. No acute pathology. Normal bowel gas pattern. No free air or fluid collections.",
       "Normal bone marrow signal. No evidence of fracture or dislocation. Normal joint spaces. No soft tissue abnormalities.",
       "Normal study. No acute abnormality identified." >>

ImpressionTexts ==
    << "Normal MRI study. No acute abnormality.",
       "Normal CT study. No acute abnormality.",
       "Normal chest radiograph. No acute cardiopulmonary process.",
       "BI-RADS Category 1: Negative. No evidence of malignancy.",
       "Normal cardiac function. No evidence of coronary artery disease.",
       "Normal brain MRI. No acute intracranial abnormality.",
       "Normal spine MRI. No acute abnormality.",
       "Normal abdominal CT. No acute abnormality.",
       "Normal musculoskeletal MRI. No acute abnormality.",
       "Normal study. No acute abnormality." >>

\* C13 as stated: a template whose specialty is "Chest CT" gets the findings
\* of the chest/lung branch, not those of the CT branch.
C13_ChestCTGetsChest ==
    (specialty = ChestCT /\ sections # NoSections) =>
        /\ sections.findings = FindingsTexts[3]
        /\ sections.findings # FindingsTexts[2]

\* C13 amended: a template whose specialty is "Chest CT" gets the findings,
\* the procedure information and the impression of the CT branch, because
\* the ct test comes before the chest test.
C13_ChestCTGetsCT ==
    (specialty = ChestCT /\ sections # NoSections) =>
        /\ sections.findings = FindingsTexts[2]
        /\ sections.procedureInformation = ProcedureTexts[2]
        /\ sections.impression = ImpressionTexts[2]

C13_Witness == specialty = ChestCT /\ sections # NoSections

\* two characters that differ at most in case
SameLetter(a, b) ==
    \/ a = b
    \/ \E n \in 1..26 : {a, b} = {UpperCase[n], LowerCase[n]}

\* w occurs in s, whatever the case of the letters of s
Occurs(s, w) ==
    \E i \in 0..(Len(s) - Len(w)) : \A j \in 1..Len(w) : SameLetter(s[i + j], w[j])

\* the number of the first branch one of whose keywords occurs in s, 10 when
\* there is none
FirstMatch(table, s) ==
    LET hits == {b \in 1..Len(table) : \E w \in table[b] : Occurs(s, w)}
    IN  IF hits = {} THEN 10 ELSE CHOOSE b \in hits : \A c \in hits : b <= c

\* the three texts of one branch
BranchTexts(b) ==
    [procedureInformation |-> ProcedureTexts[b], findings |-> FindingsTexts[b],
     impression |-> ImpressionTexts[b]]

\* the keyword list as the claim gives it
ListedKeywords ==
    << {keyword.mri}, {keyword.ct}, {keyword.chest, keyword.lung}, {keyword.breast},
       {keyword.cardiac}, {keyword.neuro}, {keyword.spine}, {keyword.abdomen},
       {keyword.musculoskeletal} >>

\* the keyword list with the alternatives the conditionals also test
TestedKeywords ==
    << {keyword.mri, keyword.magneticResonance},
       {keyword.ct, keyword.computedTomography},
       {keyword.chest, keyword.lung},
       {keyword.breast},
       {keyword.cardiac, keyword.heart},
       {keyword.neuro, keyword.brain},
       {keyword.spine},
       {keyword.abdomen, keyword.abdominal},
       {keyword.musculoskeletal, keyword.msk} >>

\* C14 as stated: the three texts are those of the first branch of the list
\* MRI, CT, chest/lung, breast, cardiac, neuro, spine, abdomen,
\* musculoskeletal whose keyword occurs in the specialty, whatever its case,
\* and the generic ones when no keyword occurs.
C14_FirstListedKeyword ==
    sections # NoSections =>
        sections = BranchTexts(FirstMatch(ListedKeywords, specialty))

\* C14 amended: the same with the keyword of each branch or its alternative:
\* mri or magnetic resonance, ct or computed tomography, chest or lung,
\* breast, cardiac or heart, neuro or brain, spine, abdomen or abdominal,
\* musculoskeletal or msk.
C14_FirstTestedKeyword ==
    sections # NoSections =>
        sections = BranchTexts(FirstMatch(TestedKeywords, specialty))

\* a specialty that matches two branches through differently cased words
C14_Witness ==
    /\ specialty = Word.Spine \o <<" ">> \o Word.MRI
    /\ sections = BranchTexts(1)

-----------------------------------------------------------------------------
(* More properties of the reconciler *)

\* C15: a call with an empty templates array that succeeds has created no
\* relationship and processed no template, its errors name subspecialties
\* only, and the association table holds no row after it.
C15_EmptyTemplates ==
    (Succeeded /\ templates = <<>>) =>
        /\ stats.relationshipsCreated = 0
        /\ stats.templatesProcessed = 0
        /\ \A i \in 1..Len(stats.errors) : stats.errors[i][1] = "Subspecialty"
        /\ stats.subspecialtiesProcessed + Len(stats.errors) = Len(subspecialties)
        /\ SubspecialtyTemplate = {}

\* a subspecialty-only call on a store that holds templates
C15_Witness ==
    /\ Succeeded
    /\ templates = <<>>
    /\ subspecialties # <<>>
    /\ Len(Template) > 0
    /\ before = <<>>

\* an upstream counter clamped to >= 0
Clamped(v) == IF v = <<>> \/ v[1] < 0 THEN 0 ELSE v[1]

\* C16: every stored template has views >= 0 and downloads >= 0, and after a
\* run every raw template (the only one of its template_id, with its required
\* texts present) is stored with its upstream views and downloads clamped to
\* >= 0: 0 for a negative or non-numeric value.
C16_CountersClamped ==
    /\ \A i \in 1..Len(Template) : Template[i].views >= 0 /\ Template[i].downloads >= 0
    /\ Succeeded =>
           \A i \in 1..Len(templates) :
               LET d == templates[i]
                   tid == FindId(Template, "template_id", d.template_id)
               IN  (/\ d.template_id # Undefined
                    /\ NotEmpty(d.title)
                    /\ NotEmptyChars(d.specCode)
                    /\ Records(d.template_id) = {i})
                   => /\ tid # 0
                      /\ Template[tid].views = Clamped(d.views)
                      /\ Template[tid].downloads = Clamped(d.downloads)

-----------------------------------------------------------------------------
(* More properties of the refresher *)

\* the refresher with every await completing: an upstream call resolves or
\* rejects within its timeout, and a setTimeout fires
SpecRefreshLive == SpecRefresh /\ WF_vars(NextRefresh)

\* C17: at most 3 attempts, each with one call of fetchTemplateDetails; the
\* wait after failed attempt n < 3 is 2000 ms times n and is followed by
\* attempt n + 1; the fallback is entered from the failed third attempt only,
\* and never once an attempt has succeeded.
C17_RetryThenFallback ==
    /\ [](/\ attempt <= 3
          /\ Len(calls) <= 3
          /\ rpc = "attempt" => Len(calls) = attempt - 1
          /\ rpc = "wait" =>
                 /\ Len(calls) = attempt
                 /\ attempt < 3
                 /\ delay = 2000 * attempt
          /\ (rpc = "fallback" \/ listings # <<>>) =>
                 /\ Len(calls) = 3
                 /\ attempt = 3
                 /\ outcome # Success
          /\ outcome = Success => listings = <<>>)
    /\ [][/\ (rpc' = "fallback" /\ rpc # "fallback") =>
                 /\ rpc = "attempt"
                 /\ attempt = 3
                 /\ Len(calls') = 3
                 /\ outcome' = NoOutcome
          /\ (rpc = "wait" /\ rpc' # "wait") =>
                 /\ rpc' = "attempt"
                 /\ attempt' = attempt + 1]_vars

\* the fallback is entered after two waits and three failed attempts
C17_Witness ==
    /\ rpc = "fallback"
    /\ Len(calls) = 3
    /\ calls[3][1] = "ok"

\* the listing call of the fallback failed, or its list lacks the template
ListingLacks ==
    /\ Len(listings) = 1
    /\ \/ listings[1][1] = "fail"
       \/ FindBasic(listings[1][2], inst[1].values.template_id) = 0

\* C18: updateSpecificTemplate, once called, ends with a return value and
\* throws nothing: success of a detail attempt, success of the fallback, or
\* success: false with an error message; the last when every attempt failed
\* and the listing call failed or its list lacks the template_id.
C18_AlwaysReturns ==
    /\ [](rpc = "done" <=> outcome.returned)
    /\ [](outcome.returned =>
              \/ outcome = Success
              \/ outcome = FallbackSuccess
              \/ ~outcome.success /\ ~outcome.fallback /\ outcome.error # NULL)
    /\ []((rpc = "done" /\ ListingLacks) => ~outcome.success /\ outcome.error # NULL)
    /\ (rpc # "idle") ~> (rpc = "done")

\* the call has returned a failure after a listing without the template
C18_Witness ==
    /\ rpc = "done"
    /\ Len(calls) = 3
    /\ Len(listings) = 1
    /\ listings[1][1] = "ok"
    /\ ~outcome.success

\* C19: the refresher calls fetchTemplateDetails for, and writes to, only a
\* template whose templateData was absent when the refresh was called.
C19_OnlyAbsentRefreshed ==
    (calls # <<>> \/ (rpc # "idle" /\ Template # before[2])) =>
        before[2][inst[1].id].templateData = NULL

-----------------------------------------------------------------------------
(* More properties of the batch operations *)

\* the promises of the current batch that have not settled
InFlight == {k \in DOMAIN promises : ~promises[k].settled}

\* C20: at most 5 templates of updateAllTemplateData and at most 10 of
\* generateAllTemplateData are in flight, and a batch is dispatched only when
\* every template dispatched before it has settled.
C20_BatchesInSequence ==
    /\ [](/\ job = "updateAllTemplateData" => Cardinality(InFlight) <= 5
          /\ job = "generateAllTemplateData" => Cardinality(InFlight) <= 10)
    /\ [][dispatched' # dispatched =>
              /\ InFlight = {}
              /\ \A id \in Elements(dispatched) : \E r \in results : r[1] = id
              /\ \A n \in 1..Len(dispatched) : dispatched'[n] = dispatched[n]]_vars

\* the second batch of a refresh is in flight
C20_Witness ==
    /\ job = "updateAllTemplateData"
    /\ offset = 5
    /\ Len(dispatched) = 10
    /\ Cardinality(InFlight) = 5
    /\ Cardinality(results) = 5

\* the results recorded for template row id
ResultsOf(id) == {r \in results : r[1] = id}

\* C21: in a refresh, settling one template leaves the promises, the rows and
\* the recorded results of its siblings as they were, whether it failed or
\* not; a template is counted as updated exactly when its own row was
\* written; every selected template has exactly one result on return, and
\* updated + failed is the number of templates selected.
C21_ItemsIndependent ==
    /\ [](job = "updateAllTemplateData" =>
              /\ \A id \in Elements(dispatched) : Cardinality(ResultsOf(id)) <= 1
              /\ \A r \in results : r[2] <=> Template[r[1]].description # NULL
              /\ (summary.returned /\ summary.success) =>
                     /\ \A id \in Elements(templatesWithoutData) :
                            Cardinality(ResultsOf(id)) = 1
                     /\ summary.updated = Cardinality({r \in results : r[2]})
                     /\ summary.failed = Cardinality({r \in results : ~r[2]})
                     /\ summary.updated + summary.failed = Len(templatesWithoutData))
    /\ [][\A k \in DOMAIN promises :
              (/\ job = "updateAllTemplateData"
               /\ k \in DOMAIN promises'
               /\ promises'[k].settled
               /\ ~promises[k].settled) =>
                  /\ \A j \in DOMAIN promises \ {k} : promises'[j] = promises[j]
                  /\ \A i \in 1..Len(Template) :
                         i # promises[k].id => Template'[i] = Template[i]
                  /\ results \subseteq results']_vars

\* a batch of a refresh in which the first template failed and each of its
\* four siblings was updated
C21_Witness ==
    /\ job = "updateAllTemplateData"
    /\ bpc = "batch"
    /\ Len(promises) = 5
    /\ <<promises[1].id, FALSE>> \in results
    /\ \A k \in 2..5 : <<promises[k].id, TRUE>> \in results

-----------------------------------------------------------------------------
(* More properties of the reconciler *)

\* the step is the recompute of updateSubspecialtyCounts
RecomputeStep == pc = "run" /\ pc' = "done" /\ result' = "success"

\* C22: the count of a stored subspecialty changes only in the recompute step
\* of createRelationships; the subspecialty upsert, the refresher and the
\* generator leave it as it is.
C22_CountOnlyRecomputed ==
    [][(\E id \in 1..Len(Subspecialty) :
            Subspecialty'[id].count # Subspecialty[id].count) => RecomputeStep]_vars

\* the rows of the junction table for one (subspecialtyId, templateId)
PairRows(sid, tid) ==
    {l \in SubspecialtyTemplate : l.subspecialtyId = sid /\ l.templateId = tid}

\* the entries of errors of one kind
ErrorEntries(kind) == {k \in 1..Len(stats.errors) : stats.errors[k][1] = kind}

\* the raw templates the loop has been through
Looped == 1..(ti - 1)

\* a code occurs twice in the parsed specCode
Repeats(specCodes) ==
    \E m, n \in 1..Len(specCodes) : m < n /\ specCodes[m] = specCodes[n]

\* C23: the junction table holds at most one row for a pair; a template the
\* loop has been through, valid and with a parsed code of this run (repeated
\* in its specCode or not), has exactly one row for that pair, and errors
\* names no template but those validation rejects.
C23_PairsUnique ==
    pc \in {"run", "done"} =>
        /\ \A sid \in 1..Len(Subspecialty), tid \in 1..Len(Template) :
               Cardinality(PairRows(sid, tid)) <= 1
        /\ \A i \in Looped :
               LET d == templates[i]
                   specCodes == parseSpecCode(d.specCode)
                   tid == FindId(Template, "template_id", d.template_id)
               IN  AcceptedTemplate(d) =>
                       /\ tid # 0
                       /\ \A c \in Elements(specCodes) \cap RunCodes :
                              Cardinality(PairRows(subspecialtyMap[c], tid)) = 1
        /\ Cardinality(ErrorEntries("Template"))
               <= Cardinality({i \in Looped : ~AcceptedTemplate(templates[i])})

\* a run over a specCode that repeats a code, followed by a record that names
\* the pair again: four insertions, two rows, no error
C23_Witness ==
    /\ Succeeded
    /\ templates = RepeatedTemplates
    /\ Repeats(parseSpecCode(templates[1].specCode))
    /\ stats.errors = <<>>
    /\ stats.templatesProcessed = 2
    /\ stats.relationshipsCreated = 4
    /\ Cardinality(SubspecialtyTemplate) = 2

-----------------------------------------------------------------------------
(* createRelationships one query at a time: every await of the method is a
   step of its own, so that a call can stop between two queries and two calls
   can interleave.  subspecialties and templates are the arguments, before
   is the store when the first call was made, and runs[r] holds the locals
   of call r. *)

\* where a call stands when its loops are at si and ti
Position(L) ==
    IF L.si <= Len(subspecialties) THEN "Subspecialty.findOrCreate"
    ELSE IF L.ti <= Len(templates) THEN "Template.findOrCreate"
    ELSE "Subspecialty.findAll"

\* the store together with the map and the statistics of one call
StoreOf(L) ==
    [Subspecialty |-> Subspecialty, Template |-> Template,
     SubspecialtyTemplate |-> SubspecialtyTemplate,
     subspecialtyMap |-> L.subspecialtyMap, stats |-> L.stats]

Locals(r, L) == runs' = [runs EXCEPT ![r] = L]

\* the catch of the template loop (lines 708-711), then the next template
TemplateCaught(L) ==
    LET caught == [L EXCEPT
                      !.stats.errors = Append(@, <<"Template", templates[L.ti].template_id>>),
                      !.ti = @ + 1]
    IN  [caught EXCEPT !.pc = Position(caught)]

\* stats.templatesProcessed++ (line 707), then the next template
TemplateProcessed(L) ==
    LET processed == [L EXCEPT !.stats.templatesProcessed = @ + 1, !.ti = @ + 1]
    IN  [processed EXCEPT !.pc = Position(processed)]

\* the template row is written: the loop over relatedSubspecialties begins
TemplateUpserted(L, id) ==
    LET related == relatedSubspecialties(L.subspecialtyMap,
                                         parseSpecCode(templates[L.ti].specCode))
        upserted == [L EXCEPT !.template = id, !.relatedSubspecialties = related,
                              !.li = 1]
    IN  IF related = <<>> THEN TemplateProcessed(upserted)
        ELSE [upserted EXCEPT !.pc = "SubspecialtyTemplate.findOrCreate"]

\* createRelationships is called: the call runs up to its first await
Enter(r, subs, tpls) ==
    /\ runs[r].pc = "idle"
    /\ \/ /\ \A q \in Runs : runs[q].pc = "idle"
          /\ before' = <<Subspecialty, Template, SubspecialtyTemplate>>
       \/ /\ \E q \in Runs : runs[q].pc # "idle"
          /\ subs = subspecialties
          /\ tpls = templates
          /\ UNCHANGED before
    /\ subspecialties' = subs
    /\ templates' = tpls
    /\ Locals(r, [NoRun EXCEPT !.pc = "destroy"])
    /\ UNCHANGED <<storeVars, pc, si, ti, subspecialtyMap, stats, result>>

RunFrame == UNCHANGED <<pc, subspecialties, templates, si, ti, subspecialtyMap, stats,
                        result, before>>

\* faulty variant: the clear waits until no other call is in progress
DestroyLocked(r) ==
    /\ runs[r].pc = "destroy"
    /\ \A q \in Runs \ {r} : runs[q].pc \in {"idle", "done", "stopped"}
    /\ SubspecialtyTemplate' = clearExistingRelationships(SubspecialtyTemplate)
    /\ Locals(r, [runs[r] EXCEPT !.pc = Position(runs[r])])
    /\ UNCHANGED <<Subspecialty, Template>>
    /\ RunFrame

\* await SubspecialtyTemplate.destroy({ where: {} }) (line 740)
Destroy(r) ==
    /\ runs[r].pc = "destroy"
    /\ SubspecialtyTemplate' = clearExistingRelationships(SubspecialtyTemplate)
    /\ Locals(r, [runs[r] EXCEPT !.pc = Position(runs[r])])
    /\ UNCHANGED <<Subspecialty, Template>>
    /\ RunFrame

\* the iteration of the subspecialty loop is over: the map and the statistics
\* as createSubspecialty leaves them
SubspecialtyDone(r) ==
    LET L == runs[r]
        st == createSubspecialty(StoreOf(L), subspecialties[L.si])
        done == [L EXCEPT !.subspecialtyMap = st.subspecialtyMap,
                          !.stats = st.stats,
                          !.si = @ + 1]
    IN  /\ Subspecialty' = st.Subspecialty
        /\ Locals(r, [done EXCEPT !.pc = Position(done)])

\* await Subspecialty.findOrCreate (lines 608-617): the row is created, or
\* found and about to be updated
SubspecialtyFindOrCreate(r) ==
    /\ runs[r].pc = "Subspecialty.findOrCreate"
    /\ IF FindId(Subspecialty, "code", subspecialties[runs[r].si].code) = 0
       THEN SubspecialtyDone(r)
       ELSE /\ Locals(r, [runs[r] EXCEPT !.pc = "subspecialty.update"])
            /\ UNCHANGED Subspecialty
    /\ UNCHANGED <<Template, SubspecialtyTemplate>>
    /\ RunFrame

\* await subspecialty.update (lines 620-627)
SubspecialtyUpdate(r) ==
    /\ runs[r].pc = "subspecialty.update"
    /\ SubspecialtyDone(r)
    /\ UNCHANGED <<Template, SubspecialtyTemplate>>
    /\ RunFrame

\* the template row is created or updated, or the call threw
TemplateDone(r) ==
    LET L == runs[r]
        u == UpsertTemplate(Template, templates[L.ti])
    IN  /\ Template' = u.table
        /\ Locals(r, IF u.threw THEN TemplateCaught(L) ELSE TemplateUpserted(L, u.id))

\* await Template.findOrCreate (lines 653-672)
TemplateFindOrCreate(r) ==
    /\ runs[r].pc = "Template.findOrCreate"
    /\ IF FindId(Template, "template_id", templates[runs[r].ti].template_id) = 0
       THEN TemplateDone(r)
       ELSE /\ Locals(r, [runs[r] EXCEPT !.pc = "template.update"])
            /\ UNCHANGED Template
    /\ UNCHANGED <<Subspecialty, SubspecialtyTemplate>>
    /\ RunFrame

\* await template.update (lines 676-693)
TemplateUpdate(r) ==
    /\ runs[r].pc = "template.update"
    /\ TemplateDone(r)
    /\ UNCHANGED <<Subspecialty, SubspecialtyTemplate>>
    /\ RunFrame

\* await SubspecialtyTemplate.findOrCreate (lines 698-704)
SubspecialtyTemplateFindOrCreate(r) ==
    /\ runs[r].pc = "SubspecialtyTemplate.findOrCreate"
    /\ LET L == runs[r]
           l == LinkFindOrCreate(SubspecialtyTemplate,
                                 L.relatedSubspecialties[L.li], L.template)
           linked == [L EXCEPT !.stats.relationshipsCreated = @ + 1, !.li = @ + 1]
       IN  /\ SubspecialtyTemplate' = l.links
           /\ Locals(r, IF l.threw THEN TemplateCaught(L)
                        ELSE IF linked.li > Len(L.relatedSubspecialties)
                        THEN TemplateProcessed(linked)
                        ELSE linked)
    /\ UNCHANGED <<Subspecialty, Template>>
    /\ RunFrame

\* await Subspecialty.findAll() (line 756)
SubspecialtyFindAll(r) ==
    /\ runs[r].pc = "Subspecialty.findAll"
    /\ Locals(r, [runs[r] EXCEPT
                     !.found = Len(Subspecialty),
                     !.ci = 1,
                     !.pc = IF Len(Subspecialty) = 0 THEN "done"
                            ELSE "SubspecialtyTemplate.count"])
    /\ UNCHANGED storeVars
    /\ RunFrame

\* await SubspecialtyTemplate.count (lines 759-761)
SubspecialtyTemplateCount(r) ==
    /\ runs[r].pc = "SubspecialtyTemplate.count"
    /\ Locals(r, [runs[r] EXCEPT
                     !.actualCount = CountLinks(SubspecialtyTemplate, runs[r].ci),
                     !.pc = "count.update"])
    /\ UNCHANGED storeVars
    /\ RunFrame

\* await subspecialty.update({ count: actualCount }) (line 763)
CountUpdate(r) ==
    /\ runs[r].pc = "count.update"
    /\ Subspecialty' = [Subspecialty EXCEPT ![runs[r].ci].count = runs[r].actualCount]
    /\ Locals(r, [runs[r] EXCEPT
                     !.ci = @ + 1,
                     !.pc = IF runs[r].ci + 1 > runs[r].found THEN "done"
                            ELSE "SubspecialtyTemplate.count"])
    /\ UNCHANGED <<Template, SubspecialtyTemplate>>
    /\ RunFrame

\* the process dies while a query of call r is outstanding, the clear done
Stop(r) ==
    /\ runs[r].pc \notin {"idle", "destroy", "done", "stopped"}
    /\ Locals(r, [runs[r] EXCEPT !.pc = "stopped"])
    /\ UNCHANGED storeVars
    /\ RunFrame

\* one query of call r completes
Query(r) ==
    \/ Destroy(r)
    \/ SubspecialtyFindOrCreate(r)
    \/ SubspecialtyUpdate(r)
    \/ TemplateFindOrCreate(r)
    \/ TemplateUpdate(r)
    \/ SubspecialtyTemplateFindOrCreate(r)
    \/ SubspecialtyFindAll(r)
    \/ SubspecialtyTemplateCount(r)
    \/ CountUpdate(r)

-----------------------------------------------------------------------------
(* A call that is cut short, and the call that follows it *)

\* the store a call that nothing interrupts leaves, from the store the first
\* call found
Uninterrupted ==
    createRelationships(before[1], before[2], before[3], subspecialties, templates)

QueryFrame == UNCHANGED <<refreshVars, parseVars, syncVars, keywordVars, batchVars>>

NextRerun ==
    \/ \E subs \in SubspecialtyLists, tpls \in TemplateLists :
           Enter(1, subs, tpls) /\ QueryFrame
    \/ Query(1) /\ QueryFrame
    \/ Stop(1) /\ QueryFrame
    \/ (runs[1].pc = "stopped" /\ Enter(2, subspecialties, templates)) /\ QueryFrame
    \/ Query(2) /\ QueryFrame

SpecRerun == Init /\ [][NextRerun]_vars

\* a call that nothing interrupts, taken one query at a time, leaves the store
\* createRelationships computes
QueriesAgree ==
    runs[1].pc = "done" =>
        <<Subspecialty, Template, SubspecialtyTemplate>> = Uninterrupted

\* C24: when the first call stopped somewhere after its clear and a second
\* call with the same arguments ran to its end, the store is the one a single
\* uninterrupted call would have left.
C24_RerunRecovers ==
    (runs[1].pc = "stopped" /\ runs[2].pc = "done") =>
        <<Subspecialty, Template, SubspecialtyTemplate>> = Uninterrupted

-----------------------------------------------------------------------------
(* Two calls of createRelationships in progress at once, with the same
   arguments: two requests to the sync endpoints, each awaiting its own
   queries *)

\* the arguments of the two calls
RaceSubspecialtyLists == {<<RawCA, RawCT>>, <<RawCA, RawCT, RawNR>>}

RaceTemplateLists ==
    { <<RawTemplate(Id50, "Cardiac CT", CACT)>>,
      <<RawTemplate(Id50, "Cardiac CT", CACT), RawTemplate(Id51, "Chest CT", CACTSpaced)>>,
      <<RawTemplate(Id50, "Brain MR", NR), RawTemplate(Id50, "Cardiac CT", CACT)>> }

NextRace ==
    \/ \E r \in Runs, subs \in RaceSubspecialtyLists, tpls \in RaceTemplateLists :
           Enter(r, subs, tpls) /\ QueryFrame
    \/ \E r \in Runs : Query(r) /\ QueryFrame

SpecRace == Init /\ [][NextRace]_vars

\* call r is between its clear and its end
InProgress(r) == runs[r].pc \notin {"idle", "destroy", "done", "stopped"}

\* C25: nothing holds the clear of one call back while the other call is in
\* progress; association rows disappear in a clear only, and a clear removes
\* every row, those the other call has inserted included.
C25_ClearRaces ==
    /\ [](\A r \in Runs : runs[r].pc = "destroy" => ENABLED Destroy(r))
    /\ [][~(SubspecialtyTemplate \subseteq SubspecialtyTemplate') =>
              /\ SubspecialtyTemplate' = {}
              /\ \E r \in Runs : runs[r].pc = "destroy" /\ runs'[r].pc # "destroy"]_vars

\* the second call has just cleared the table while the first call, which had
\* inserted a row, is still inserting: a reader finds the table empty
C25_Witness ==
    /\ runs[1].pc = "SubspecialtyTemplate.findOrCreate"
    /\ runs[1].li = 2
    /\ runs[1].stats.relationshipsCreated = 1
    /\ runs[2].pc = "Subspecialty.findOrCreate"
    /\ runs[2].si = 1
    /\ before[3] # {}
    /\ SubspecialtyTemplate = {}

\* both calls have run to their end
BothDone == \A r \in Runs : runs[r].pc = "done"

\* every stored subspecialty's count is the number of its association rows
CountsLive ==
    \A id \in 1..Len(Subspecialty) :
        Subspecialty[id].count = CountLinks(SubspecialtyTemplate, id)

\* every template of the input is linked to the codes of the input records
\* that carry its template_id and are codes of the input subspecialties
LinksComplete ==
    \A i \in 1..Len(templates) :
        LET tid == FindId(Template, "template_id", templates[i].template_id)
        IN  /\ tid # 0
            /\ LinkedCodes(tid) =
                   UNION {Elements(parseSpecCode(templates[k].specCode)) :
                              k \in Records(templates[i].template_id)}
                       \cap {subspecialties[k].code : k \in 1..Len(subspecialties)}

\* C26: when two calls with the same arguments interleave and both end, every
\* count is the number of association rows of its subspecialty and every
\* input template is linked to its matched codes.
C26_ConcurrentRunsConsistent ==
    BothDone => CountsLive /\ LinksComplete

-----------------------------------------------------------------------------
(* Properties of the generator *)

\* the twelve names, and the words at indices 1 and 2 of each
AuthorNames == {authors[i].author : i \in DOMAIN authors}
FirstNames == {authors[i].firstname : i \in DOMAIN authors}
LastNames == {authors[i].lastname : i \in DOMAIN authors}

\* the three values are an author of the list, a first name of the list and a
\* last name of the list
NameTokens(v) ==
    /\ v.author \in AuthorNames
    /\ v.firstname \in FirstNames
    /\ v.lastname \in LastNames

\* the rows generateTemplateData has written
Generated == {id \in Elements(dispatched) : <<id, TRUE>> \in results}

\* C27: whatever the three draws of a template are, the author the generator
\* stores is one of the twelve names, the firstname the first name of one of
\* them and the lastname the last name of one of them (not necessarily of the
\* same name).
C27_NamesAreTokens ==
    job = "generateAllTemplateData" =>
        /\ \A k \in DOMAIN promises : NameTokens(promises[k].values)
        /\ \A id \in Generated :
               /\ Template[id].templateData # NULL
               /\ NameTokens(Template[id])

\* a generated row whose firstname and lastname are not those of its author,
\* nor those of one and the same name
C27_Witness ==
    /\ job = "generateAllTemplateData"
    /\ \E id \in Generated :
           /\ \A i \in DOMAIN authors :
                  Template[id].author = authors[i].author =>
                      /\ Template[id].firstname # authors[i].firstname
                      /\ Template[id].lastname # authors[i].lastname
           /\ \A i \in DOMAIN authors :
                  ~(/\ Template[id].firstname = authors[i].firstname
                    /\ Template[id].lastname = authors[i].lastname)

-----------------------------------------------------------------------------
(* A synchronisation over a store that holds enriched templates, followed by
   the selection of a batch operation *)

ResyncStores == RefreshStores \cup BatchStores

\* the listing, and a listing whose record carries a document of its own
ResyncTemplateLists ==
    RaceTemplateLists
        \cup { <<Enriched(Id50, "<html>raw</html>", NULL, "Dr. Raw Author", NULL, NULL, <<>>)>> }

InitResync ==
    /\ \E store \in ResyncStores :
           /\ Subspecialty = store[1]
           /\ Template = store[2]
           /\ SubspecialtyTemplate = store[3]
    /\ RunIdle
    /\ RefreshIdle
    /\ ParseIdle
    /\ SyncIdle
    /\ KeywordIdle
    /\ BatchIdle
    /\ RaceIdle

NextResync ==
    \/ \E subs \in RaceSubspecialtyLists, tpls \in ResyncTemplateLists :
           Enter(1, subs, tpls) /\ QueryFrame
    \/ Query(1) /\ QueryFrame
    \/ (runs[1].pc = "done" /\ updateAllTemplateData) /\ SummaryFrame /\ BatchFrame
    \/ (runs[1].pc = "done" /\ generateAllTemplateData) /\ SummaryFrame /\ BatchFrame

SpecResync == InitResync /\ [][NextResync]_vars

\* the last record of the input that carries the template_id of record i
LastRecord(i) ==
    \A k \in Records(templates[i].template_id) : k <= i

\* C28: after a reconciliation, a stored template whose last raw record was
\* accepted holds that record's enrichment and nothing of what was stored:
\* without templateData in the record, templateData and description are null
\* and author, firstname and lastname are empty unless the record carries
\* them; such a template is selected by the batch operation that follows.
C28_ResyncDiscards ==
    runs[1].pc = "done" =>
        \A i \in 1..Len(templates) :
            LET d == templates[i]
                tid == FindId(Template, "template_id", d.template_id)
            IN  (LastRecord(i) /\ AcceptedTemplate(d)) =>
                    /\ tid # 0
                    /\ Template[tid].templateData = Or(d.templateData, NULL)
                    /\ Template[tid].description = Or(d.description, NULL)
                    /\ Template[tid].author = Or(d.author, "")
                    /\ Template[tid].firstname = Or(d.firstname, "")
                    /\ Template[tid].lastname = Or(d.lastname, "")
                    /\ (d.templateData = NULL /\ job # "none") =>
                           tid \in Elements(templatesWithoutData)

\* a template that held a document before the reconciliation holds none
\* after it and is selected by generateAllTemplateData
C28_Witness ==
    /\ runs[1].pc = "done"
    /\ job = "generateAllTemplateData"
    /\ \E tid \in 1..Len(before[2]) :
           /\ before[2][tid].templateData = "<html>old</html>"
           /\ before[2][tid].author = "Dr. Old Author"
           /\ Template[tid].templateData = NULL
           /\ Template[tid].description = NULL
           /\ Template[tid].author = ""
           /\ tid \in Elements(templatesWithoutData)

-----------------------------------------------------------------------------
(* Properties of the reconciler's template loop and statistics *)

\* the columns of a row that TemplateValues fills
SameColumns(row, v) == \A f \in DOMAIN v : row[f] = v[f]

\* the codes of all records of the input that carry template_id k
CodesOfRecords(k) ==
    UNION {Elements(parseSpecCode(templates[i].specCode)) : i \in Records(k)}

\* C29: when several accepted records of the input carry the same
\* template_id, the stored row holds the columns (specCode included) of the
\* last of them, and its association rows are those of the codes of all of
\* them that are subspecialties of the run.
C29_LaterRecordWins ==
    Succeeded =>
        \A i \in 1..Len(templates) :
            LET k == templates[i].template_id
                tid == FindId(Template, "template_id", k)
            IN  (/\ Cardinality(Records(k)) >= 2
                 /\ LastRecord(i)
                 /\ \A j \in Records(k) : AcceptedTemplate(templates[j])) =>
                    /\ tid # 0
                    /\ SameColumns(Template[tid], TemplateValues(templates[i]))
                    /\ LinkedCodes(tid) = CodesOfRecords(k) \cap RunCodes

\* template 50 arrives with specCode "CA,CT" and then with "NR": the row
\* stores "NR" and is linked to CA, CT and NR
C29_Witness ==
    /\ Succeeded
    /\ Len(templates) = 2
    /\ templates[1].specCode = CACT
    /\ templates[2].specCode = NR
    /\ templates[1].template_id = templates[2].template_id
    /\ LET tid == FindId(Template, "template_id", templates[1].template_id)
       IN  /\ tid # 0
           /\ Template[tid].specCode = NR
           /\ LinkedCodes(tid) = {CA, CT, NR}

\* the number of parsed codes of record i, counted with their repetitions,
\* that are subspecialties of the run
Matched(i) ==
    LET specCodes == parseSpecCode(templates[i].specCode)
    IN  Cardinality({n \in 1..Len(specCodes) : specCodes[n] \in RunCodes})

RECURSIVE MatchedUpTo(_)
MatchedUpTo(n) == IF n = 0 THEN 0 ELSE MatchedUpTo(n - 1) + Matched(n)

\* C30: after a successful run, every input subspecialty is either counted in
\* subspecialtiesProcessed or named by one Subspecialty entry of errors, and
\* every input template either counted in templatesProcessed or named by one
\* Template entry; relationshipsCreated is the number of matched codes of the
\* processed records, repetitions counted, which is at least the number of
\* association rows.
C30_StatsAccount ==
    Succeeded =>
        /\ stats.subspecialtiesProcessed + Cardinality(ErrorEntries("Subspecialty"))
               = Len(subspecialties)
        /\ stats.templatesProcessed + Cardinality(ErrorEntries("Template"))
               = Len(templates)
        /\ ErrorEntries("Subspecialty") \cup ErrorEntries("Template")
               = 1..Len(stats.errors)
        /\ stats.relationshipsCreated >= Cardinality(SubspecialtyTemplate)
        /\ stats.relationshipsCreated <= MatchedUpTo(Len(templates))
        /\ (\A i \in 1..Len(templates) : AcceptedTemplate(templates[i])) =>
               stats.relationshipsCreated = MatchedUpTo(Len(templates))

\* a run in which a subspecialty and a template were rejected and the others
\* processed and linked
C30_Witness ==
    /\ Succeeded
    /\ Len(subspecialties) = 3
    /\ Len(templates) = 5
    /\ stats.subspecialtiesProcessed = 2
    /\ stats.templatesProcessed = 4
    /\ Cardinality(ErrorEntries("Subspecialty")) = 1
    /\ Cardinality(ErrorEntries("Template")) = 1
    /\ stats.relationshipsCreated >= 2

====
